---- MODULE Spec2Model ----
(***************************************************************************)
(* Image-candidate discovery, canonical keys, best-variant selection and   *)
(* deduplication of the Jewel_Data_Extraction scripts.                     *)
(*                                                                         *)
(* A Python str is a sequence of one-character strings; an absent or empty *)
(* attribute is the empty sequence (every use in the source tests the      *)
(* attribute's truthiness, which does not tell None from "").              *)
(***************************************************************************)
EXTENDS Integers, Sequences, FiniteSets, TLC

(***************************************************************************)
(* str primitives                                                          *)
(***************************************************************************)
UpperChars == <<"A","B","C","D","E","F","G","H","I","J","K","L","M",
                "N","O","P","Q","R","S","T","U","V","W","X","Y","Z">>

LowerChars == <<"a","b","c","d","e","f","g","h","i","j","k","l","m",
                "n","o","p","q","r","s","t","u","v","w","x","y","z">>

DigitChars == <<"0","1","2","3","4","5","6","7","8","9">>

\* str.lower() on one character
LowerChar(c) ==
    IF \E k \in 1..26 : UpperChars[k] = c
    THEN LowerChars[CHOOSE k \in 1..26 : UpperChars[k] = c]
    ELSE c

\* str.lower()
lower(s) == [k \in 1..Len(s) |-> LowerChar(s[k])]

IsDigitChar(c) == \E k \in 1..10 : DigitChars[k] = c

DigitVal(c) == (CHOOSE k \in 1..10 : DigitChars[k] = c) - 1

\* str.isdigit(): non-empty and decimal digits only
isdigit(s) == Len(s) > 0 /\ \A k \in 1..Len(s) : IsDigitChar(s[k])

\* the value of a digit string
RECURSIVE DigitsToInt(_)
DigitsToInt(s) ==
    IF Len(s) = 0 THEN 0
    ELSE 10 * DigitsToInt(SubSeq(s, 1, Len(s) - 1)) + DigitVal(s[Len(s)])

\* Python slices: s[:n] and s[n:] for 0 <= n
Take(s, n) == SubSeq(s, 1, IF n < Len(s) THEN n ELSE Len(s))

Drop(s, n) == SubSeq(s, n + 1, Len(s))

\* whether sub occurs in s at 0-based offset i
MatchAt(s, sub, i) ==
    /\ i >= 0
    /\ i + Len(sub) <= Len(s)
    /\ \A k \in 1..Len(sub) : s[i + k] = sub[k]

\* str.startswith / str.endswith
startswith(s, p) == MatchAt(s, p, 0)

endswith(s, p) == MatchAt(s, p, Len(s) - Len(p))

\* str.find(sub, i): the lowest 0-based offset >= i of sub in s, or -1
RECURSIVE find_from(_, _, _)
find_from(s, sub, i) ==
    IF i + Len(sub) > Len(s) THEN -1
    ELSE IF MatchAt(s, sub, i) THEN i
    ELSE find_from(s, sub, i + 1)

\* str.find
find(s, sub) == find_from(s, sub, 0)

\* the highest 0-based offset <= i of sub in s, or -1
RECURSIVE rfind_from(_, _, _)
rfind_from(s, sub, i) ==
    IF i < 0 THEN -1
    ELSE IF MatchAt(s, sub, i) THEN i
    ELSE rfind_from(s, sub, i - 1)

\* str.rfind
rfind(s, sub) == rfind_from(s, sub, Len(s) - Len(sub))

\* the whitespace of the modelled alphabet
IsSpace(c) == c = " "

\* str.strip()
RECURSIVE lstrip(_)
lstrip(s) == IF Len(s) > 0 /\ IsSpace(s[1]) THEN lstrip(Tail(s)) ELSE s

RECURSIVE rstrip(_)
rstrip(s) ==
    IF Len(s) > 0 /\ IsSpace(s[Len(s)]) THEN rstrip(SubSeq(s, 1, Len(s) - 1)) ELSE s

strip(s) == rstrip(lstrip(s))

\* str.split(sep) for a one-character separator: empty fields are kept
RECURSIVE split_on(_, _)
split_on(s, sep) ==
    LET i == find(s, <<sep>>)
    IN  IF i = -1 THEN <<s>>
        ELSE <<Take(s, i)>> \o split_on(Drop(s, i + 1), sep)

\* str.split(): fields between runs of whitespace, no empty field
RECURSIVE split_ws(_)
split_ws(s) ==
    LET t == lstrip(s)
        i == find(t, <<" ">>)
    IN  IF Len(t) = 0 THEN <<>>
        ELSE IF i = -1 THEN <<t>>
        ELSE <<Take(t, i)>> \o split_ws(Drop(t, i))

\* the str of a Python literal, written character by character
S_https == <<"h","t","t","p","s",":">>

S_http == <<"h","t","t","p">>

S_data == <<"d","a","t","a",":">>

S_slashes == <<"/","/">>

S_jpg == <<".","j","p","g">>

S_png == <<".","p","n","g">>

\* ".jpeg"
S_jpeg == <<".","j","p","e","g">>

\* ".webp"
S_webp == <<".","w","e","b","p">>

\* ".gif"
S_gif == <<".","g","i","f">>

\* ".bmp"
S_bmp == <<".","b","m","p">>

\* ".tiff"
S_tiff == <<".","t","i","f","f">>

\* "http:"
S_http_colon == <<"h","t","t","p",":">>

S_http_slashes == <<"h","t","t","p",":","/","/">>

S_https_slashes == <<"h","t","t","p","s",":","/","/">>

S_width == <<"w","i","d","t","h","=">>

(***************************************************************************)
(* URL normalizers and canonical-key extractors                            *)
(***************************************************************************)
\* Ivan/Temp/extraction.py normalize_url
normalize_url(raw) == IF startswith(raw, S_slashes) THEN S_https \o raw ELSE raw

\* normalize fooled by a "//" anywhere in the URL
normalize_anywhere(u) == IF find(u, S_slashes) # -1 THEN S_https \o u ELSE u

\* normalize of extractionv3.py, extraction_dynamic.py and extraction_v2.py
normalize(u) == IF startswith(u, S_slashes) THEN S_https \o u ELSE u

\* Ivan/Temp/extraction.py base_jpg: re.search(r"\.jpg", url), case-sensitive
base_jpg(url) ==
    LET start == find(url, S_jpg)
    IN  IF start = -1 THEN url ELSE Take(url, start + 4)

\* strip_to_jpg of extractionv3.py, src/extraction_dynamic.py, extraction_v2.py
strip_to_jpg(u) ==
    LET i == find(lower(u), S_jpg)
    IN  IF i # -1 THEN Take(u, i + 4) ELSE u

Min(S) == CHOOSE x \in S : \A y \in S : x <= y

\* strip_to_jpg_png as the copies that know .jpg alone
strip_to_jpg_only(url) == strip_to_jpg(url)

\* ExtractionEngine/extraction_dynamic.py strip_to_jpg: .jpg or .png
strip_to_jpg_png(url) ==
    LET url_lower == lower(url)
        idx_jpg == find(url_lower, S_jpg)
        idx_png == find(url_lower, S_png)
        idxs == {i \in {idx_jpg, idx_png} : i # -1}
    IN  IF idxs # {} THEN Take(url, Min(idxs) + 4) ELSE url

(***************************************************************************)
(* Width descriptors and srcset                                            *)
(***************************************************************************)
\* the leading run of decimal digits of s
RECURSIVE DigitRun(_)
DigitRun(s) ==
    IF Len(s) > 0 /\ IsDigitChar(s[1]) THEN <<s[1]>> \o DigitRun(Tail(s)) ELSE <<>>

\* whether r"[?&]width=(\d+)" matches url at 0-based offset i
WidthParamAt(url, i) ==
    /\ i + 1 <= Len(url)
    /\ url[i + 1] \in {"?", "&"}
    /\ MatchAt(url, S_width, i + 1)
    /\ i + 8 <= Len(url)
    /\ IsDigitChar(url[i + 8])

\* Ivan/Temp/extraction.py parse_width; descriptor None is the empty str
parse_width(url, descriptor) ==
    IF /\ Len(descriptor) > 0
       /\ endswith(descriptor, <<"w">>)
       /\ isdigit(Take(descriptor, Len(descriptor) - 1))
    THEN DigitsToInt(Take(descriptor, Len(descriptor) - 1))
    ELSE IF \E i \in 0..Len(url) : WidthParamAt(url, i)
    THEN LET i == CHOOSE i \in 0..Len(url) :
                    WidthParamAt(url, i) /\ \A j \in 0..(i - 1) : ~WidthParamAt(url, j)
         IN  DigitsToInt(DigitRun(Drop(url, i + 7)))
    ELSE 0

\* int(s) of a sign and decimal digits; any other str raises ValueError,
\* which parse_srcset answers with width 0
IntOrZero(s) ==
    IF isdigit(s) THEN DigitsToInt(s)
    ELSE IF Len(s) > 1 /\ s[1] = "+" /\ isdigit(Tail(s)) THEN DigitsToInt(Tail(s))
    ELSE IF Len(s) > 1 /\ s[1] = "-" /\ isdigit(Tail(s)) THEN 0 - DigitsToInt(Tail(s))
    ELSE 0

\* one entry of parse_srcset: (normalize(url_part), width)
srcset_variant(part) ==
    LET sp == rfind(part, <<" ">>)
        url_part == IF sp # -1 THEN strip(Take(part, sp)) ELSE strip(part)
        width_part == IF sp # -1 THEN Drop(part, sp + 1) ELSE <<>>
        width == IF endswith(width_part, <<"w">>)
                 THEN IntOrZero(Take(width_part, Len(width_part) - 1))
                 ELSE 0
    IN  [url |-> normalize(url_part), w |-> width]

\* the non-empty stripped parts of attr.split(",")
RECURSIVE NonEmptyParts(_)
NonEmptyParts(parts) ==
    IF Len(parts) = 0 THEN <<>>
    ELSE LET part == strip(Head(parts))
         IN  (IF Len(part) = 0 THEN <<>> ELSE <<part>>) \o NonEmptyParts(Tail(parts))

\* extractionv3.py parse_srcset
parse_srcset(attr) ==
    IF Len(attr) = 0 THEN <<>>
    ELSE LET parts == NonEmptyParts(split_on(attr, ","))
         IN  [k \in 1..Len(parts) |-> srcset_variant(parts[k])]

\* list.sort(key=width, reverse=True): stable, descending.  v is inserted
\* behind every element whose width is not smaller.
RECURSIVE InsertDesc(_, _)
InsertDesc(sorted, v) ==
    IF Len(sorted) = 0 THEN <<v>>
    ELSE IF Head(sorted).w >= v.w THEN <<Head(sorted)>> \o InsertDesc(Tail(sorted), v)
    ELSE <<v>> \o sorted

RECURSIVE sort_desc(_)
sort_desc(variants) ==
    IF Len(variants) = 0 THEN <<>>
    ELSE InsertDesc(sort_desc(SubSeq(variants, 1, Len(variants) - 1)),
                    variants[Len(variants)])

\* extractionv3.py choose_best_variant
choose_best_variant(img_tag) ==
    LET srcset == IF Len(img_tag.srcset) > 0 THEN img_tag.srcset ELSE img_tag.dt
        variants == parse_srcset(srcset)
    IN  IF Len(variants) > 0 THEN sort_desc(variants)[1].url
        ELSE IF Len(img_tag.src) = 0 THEN <<>>
        ELSE normalize(img_tag.src)

\* one srcset entry as the Ivan loops read it: pieces = part.split()
ivan_candidate(part) ==
    LET pieces == split_ws(part)
        candidate_url == normalize_url(pieces[1])
        descriptor == IF Len(pieces) > 1 THEN pieces[2] ELSE <<>>
    IN  [url |-> candidate_url, w |-> parse_width(candidate_url, descriptor)]

\* the (candidate_url, w) pairs of the loop over srcset.split(",")
srcset_candidates(srcset) ==
    IF Len(srcset) = 0 THEN <<>>
    ELSE LET parts == NonEmptyParts(split_on(srcset, ","))
         IN  [k \in 1..Len(parts) |-> ivan_candidate(parts[k])]

\* max_variant with the comparison w >= max_w: the last of equal widths wins
RECURSIVE max_variant_last(_, _)
max_variant_last(cands, best) ==
    IF Len(cands) = 0 THEN best
    ELSE max_variant_last(Tail(cands),
                          IF Head(cands).w >= best.max_w
                          THEN [chosen_full |-> Head(cands).url, max_w |-> Head(cands).w]
                          ELSE best)

\* the running maximum of the srcset loop: replaced on w > max_w only
RECURSIVE max_variant(_, _)
max_variant(cands, best) ==
    IF Len(cands) = 0 THEN best
    ELSE max_variant(Tail(cands),
                     IF Head(cands).w > best.max_w
                     THEN [chosen_full |-> Head(cands).url, max_w |-> Head(cands).w]
                     ELSE best)

\* process_html's choice for one img: srcset maximum, else normalize_url(src)
choose_full(img) ==
    LET best == max_variant(srcset_candidates(img.srcset),
                            [chosen_full |-> <<>>, max_w |-> -1])
    IN  IF Len(best.chosen_full) > 0 THEN best
        ELSE IF Len(img.src) > 0
        THEN [chosen_full |-> normalize_url(img.src), max_w |-> best.max_w]
        ELSE best

\* chosen_full, max_w and base = base_jpg(chosen_full) of one img
process_html_pick(img) ==
    LET c == choose_full(img)
    IN  [chosen_full |-> c.chosen_full, max_w |-> c.max_w, base |-> base_jpg(c.chosen_full)]

(***************************************************************************)
(* Input documents.  A container is a sequence of img elements followed,   *)
(* for the resolver that reads them, by anchor elements; each element is   *)
(* drawn from a pool of concrete elements.                                 *)
(***************************************************************************)
\* "https://h/p/item"
U_page == <<"h","t","t","p","s",":","/","/","h","/","p","/","i","t","e","m">>

\* "p1-200.jpg 200w, p1-800.jpg 800w"
U_srcset_p1 == <<"p","1","-","2","0","0",".","j","p","g"," ","2","0","0","w",","," ","p","1","-","8","0","0",".","j","p","g"," ","8","0","0","w">>

\* "p1-800.jpg"
U_p1_800 == <<"p","1","-","8","0","0",".","j","p","g">>

\* "//cdn/p2.png?v=3"
U_p2_v3 == <<"/","/","c","d","n","/","p","2",".","p","n","g","?","v","=","3">>

\* "//cdn/p2.png?v=4"
U_p2_v4 == <<"/","/","c","d","n","/","p","2",".","p","n","g","?","v","=","4">>

\* "https://cdn/p2.png"
U_p2_key == <<"h","t","t","p","s",":","/","/","c","d","n","/","p","2",".","p","n","g">>

\* "data:image/png;base64,AAAA"
U_data == <<"d","a","t","a",":","i","m","a","g","e","/","p","n","g",";","b","a","s","e","6","4",",","A","A","A","A">>

\* "x400.jpg 400w, x1200.jpg 1200w"
U_srcset_x == <<"x","4","0","0",".","j","p","g"," ","4","0","0","w",","," ","x","1","2","0","0",".","j","p","g"," ","1","2","0","0","w">>

\* "x1200.jpg"
U_x1200 == <<"x","1","2","0","0",".","j","p","g">>

\* "a.jpg 800w, b.jpg 800w"
U_srcset_tie == <<"a",".","j","p","g"," ","8","0","0","w",","," ","b",".","j","p","g"," ","8","0","0","w">>

\* "a.jpg"
U_a == <<"a",".","j","p","g">>

\* "b.jpg"
U_b == <<"b",".","j","p","g">>

\* "a.jpg?width=100"
U_a_w100 == <<"a",".","j","p","g","?","w","i","d","t","h","=","1","0","0">>

\* "a.jpg?width=700 900w, b.jpg 50w"
U_srcset_grow == <<"a",".","j","p","g","?","w","i","d","t","h","=","7","0","0"," ","9","0","0","w",","," ","b",".","j","p","g"," ","5","0","w">>

\* "a.jpg?width=700"
U_a_w700 == <<"a",".","j","p","g","?","w","i","d","t","h","=","7","0","0">>

\* "c.jpg?width=800"
U_c_w800 == <<"c",".","j","p","g","?","w","i","d","t","h","=","8","0","0">>

\* "b.jpg 2x, a.jpg?v=9 800w , c.jpg?width=800"
U_srcset_late_tie == <<"b",".","j","p","g"," ","2","x",","," ","a",".","j","p","g","?","v","=","9"," ","8","0","0","w"," ",","," ","c",".","j","p","g","?","w","i","d","t","h","=","8","0","0">>

\* "a.JPG?v=1"
U_A_upper_v1 == <<"a",".","J","P","G","?","v","=","1">>

\* "a.JPG?v=2"
U_A_upper_v2 == <<"a",".","J","P","G","?","v","=","2">>

\* "a.JPG"
U_A_upper == <<"a",".","J","P","G">>

\* "//cdn/x.webp?v=1"
U_webp_v1 == <<"/","/","c","d","n","/","x",".","w","e","b","p","?","v","=","1">>

\* "//cdn/x.webp?v=2"
U_webp_v2 == <<"/","/","c","d","n","/","x",".","w","e","b","p","?","v","=","2">>

\* "https://cdn/x.webp"
U_webp_key == <<"h","t","t","p","s",":","/","/","c","d","n","/","x",".","w","e","b","p">>

\* "a.jpg?v=2"
U_a_v2 == <<"a",".","j","p","g","?","v","=","2">>

\* "a.jpg#zoom"
U_a_frag == <<"a",".","j","p","g","#","z","o","o","m">>

U_p3_v1 == <<"/","/","c","d","n","/","p","3",".","j","p","g","?","v","=","1">>

U_p3_full == <<"h","t","t","p","s",":","/","/","c","d","n","/","p","3",".","j","p","g","?","v","=","1">>

U_p3 == <<"h","t","t","p","s",":","/","/","c","d","n","/","p","3",".","j","p","g">>

\* an img element with no attribute
NoAttrs ==
    [src |-> <<>>, srcset |-> <<>>, dt |-> <<>>,
     data_src |-> <<>>, data_msrc |-> <<>>, d_src |-> <<>>]

\* the pool of img elements
Imgs ==
    << [NoAttrs EXCEPT !.srcset = U_srcset_p1],
       [NoAttrs EXCEPT !.src = U_p2_v3],
       [NoAttrs EXCEPT !.src = U_data],
       [NoAttrs EXCEPT !.srcset = U_srcset_x],
       [NoAttrs EXCEPT !.srcset = U_srcset_tie],
       [NoAttrs EXCEPT !.src = U_a_w100, !.srcset = U_srcset_grow],
       [NoAttrs EXCEPT !.srcset = U_srcset_late_tie],
       [NoAttrs EXCEPT !.src = U_A_upper_v1],
       [NoAttrs EXCEPT !.src = U_A_upper_v2],
       [NoAttrs EXCEPT !.src = U_webp_v1],
       [NoAttrs EXCEPT !.src = U_webp_v2],
       [NoAttrs EXCEPT !.src = U_p2_v4],
       [NoAttrs EXCEPT !.src = U_data, !.d_src = U_a_v2],
       [NoAttrs EXCEPT !.src = U_b, !.d_src = U_a_v2],
       [NoAttrs EXCEPT !.src = U_a_frag, !.d_src = U_data],
       [NoAttrs EXCEPT !.src = U_a, !.data_src = U_a_v2, !.srcset = U_srcset_tie],
       [NoAttrs EXCEPT !.src = U_b, !.srcset = U_srcset_tie],
       [NoAttrs EXCEPT !.src = U_p3_v1] >>

\* the pool of anchor hrefs
Hrefs == << U_a_v2, U_A_upper_v1, U_data, U_p2_v3 >>

\* the most img and anchor elements a container holds
MaxElems == 3

Resolvers ==
    {"process_html", "extract_max_image_bases", "extract_max_full_urls",
     "extract_image_srcs_engine", "extract_image_srcs", "get_slider_imgs",
     "get_product_slider_imgs", "extract_img_srcs", "extract_img_links_from_limelight"}

\* the img elements each resolver is run on
ImgPool(f) ==
    CASE f = "process_html" -> {1, 2, 3, 4, 5, 6, 7, 8}
      [] f \in {"extract_max_image_bases", "extract_max_full_urls"} -> {1, 2, 5, 6, 7, 17}
      [] f = "extract_image_srcs_engine" -> {2, 3, 10, 11, 12, 13, 14, 15}
      [] f = "extract_image_srcs" -> {6, 8, 9, 13, 14, 15}
      [] f = "get_slider_imgs" -> {2, 3, 6, 8, 9, 12}
      [] f = "get_product_slider_imgs" -> {3, 4, 5, 7, 13, 16}
      [] f = "extract_img_srcs" -> {2, 3, 6, 8, 10}
      [] f = "extract_img_links_from_limelight" -> {2, 3, 6, 10, 12}

(***************************************************************************)
(* State                                                                   *)
(***************************************************************************)
VARIABLES
    fn,            \* the resolver that runs
    opts,          \* its keyword arguments
    container,     \* whether the document holds the container
    pc,            \* "start", "imgs", "anchors", "done"
    doc,           \* the img elements read so far, as indices of Imgs
    links,         \* the anchor elements read so far, as indices of Hrefs
    chosen,        \* chosen_full / best of the last img read
    seen,          \* the set seen
    out,           \* unique_bases / collected / found / out / img_srcs / links
    base_to_full,  \* process_html's dict base_to_full
    pending,       \* extract_max_*: the candidates of the current img not yet folded
    groups,        \* extract_max_*: the dict groups, in insertion order
    log,           \* the audit log, one record per log_event call
    requests,      \* the requests.get calls issued, in order
    files,         \* the files of download_dir, by name
    dl,            \* process_html's download loop: the index i
    answers,       \* the answers to the requests of the last iteration
    targets,       \* main: the list targets
    idx,           \* the index of the running loop of main, download_images
                   \* (i / idx) and fetch_html_from_url (attempt + 1)
    stdout,        \* the lines printed
    sleeps,        \* the time.sleep calls, each with the requests made before it
    returned,      \* what the finished calls and runs gave their caller, in order
    writers        \* the log_event calls that run concurrently, by worker

vars == <<fn, opts, container, pc, doc, links, chosen, seen, out, base_to_full,
          pending, groups, log, requests, files, dl, answers,
          targets, idx, stdout, sleeps, returned, writers>>

Options ==
    [include_both : BOOLEAN, high_res : BOOLEAN, include_links : BOOLEAN,
     download : BOOLEAN]

DefaultOptions ==
    [include_both |-> FALSE, high_res |-> TRUE, include_links |-> TRUE,
     download |-> FALSE]

OptionsOf(f) ==
    CASE f \in {"extract_image_srcs_engine", "extract_image_srcs"} ->
            {[DefaultOptions EXCEPT !.include_both = b] : b \in BOOLEAN}
      [] f = "get_product_slider_imgs" ->
            {[DefaultOptions EXCEPT !.high_res = h, !.include_links = l] :
                h \in BOOLEAN, l \in BOOLEAN}
      [] OTHER -> {DefaultOptions}

Init ==
    /\ fn \in Resolvers
    /\ opts \in OptionsOf(fn)
    /\ container \in BOOLEAN
    /\ pc = "start"
    /\ doc = <<>>
    /\ links = <<>>
    /\ chosen = <<>>
    /\ seen = {}
    /\ out = <<>>
    /\ base_to_full = <<>>
    /\ pending = <<>>
    /\ groups = <<>>
    /\ log = <<>>
    /\ requests = <<>>
    /\ files = <<>>
    /\ dl = 1
    /\ answers = <<>>
    /\ targets = <<>>
    /\ idx = 0
    /\ stdout = <<>>
    /\ sleeps = <<>>
    /\ returned = <<>>
    /\ writers = <<>>

\* str(i) of a natural number
RECURSIVE IntToStr(_)
IntToStr(n) ==
    IF n < 10 THEN <<DigitChars[n + 1]>>
    ELSE IntToStr(n \div 10) \o <<DigitChars[(n % 10) + 1]>>

\* the literals of the notes
S_width_eq == <<"w","i","d","t","h","=">>

S_src == <<"s","r","c">>

S_images_eq == <<"i","m","a","g","e","s","=">>

S_size_eq == <<"s","i","z","e","=">>

S_non_image == <<"N","o","n","-","i","m","a","g","e"," ","c","o","n","t","e","n","t","-","t","y","p","e"," ">>

\* process_html's argument page_url: the target main fetched, or U_page when
\* process_html is called on its own
page_url == IF idx = 0 THEN U_page ELSE targets[idx]

\* log_event: one record of the audit log (the timestamp is left out)
log_parts(page, stage, image_base, image_full, status, note) ==
    [stage |-> stage, page_url |-> page, image_base |-> image_base,
     image_full |-> image_full, status |-> status, note |-> note]

\* log_event called by process_html or main for the page at hand
log_event(stage, image_base, image_full, status, note) ==
    log_parts(page_url, stage, image_base, image_full, status, note)

\* find_container going on to the img elements without a container
find_container_proceeds ==
    /\ pc = "start"
    /\ pc' = "imgs"
    /\ log' = IF fn # "process_html" THEN log
              ELSE IF container
              THEN Append(log, log_event("slider_found", <<>>, <<>>, "ok", <<>>))
              ELSE Append(log, log_event("slider_missing", <<>>, <<>>, "no_slider",
                                         "Product-Slider element not found"))
    /\ UNCHANGED <<fn, opts, container, doc, links, chosen, seen, out, base_to_full,
                   pending, groups, requests, files, dl, answers,
                   targets, idx, stdout, sleeps, returned, writers>>

\* soup.find(...) and the early return of every resolver
find_container ==
    /\ pc = "start"
    /\ pc' = IF container THEN "imgs" ELSE "done"
    /\ log' = IF fn # "process_html" THEN log
              ELSE IF container
              THEN Append(log, log_event("slider_found", <<>>, <<>>, "ok", <<>>))
              ELSE Append(log, log_event("slider_missing", <<>>, <<>>, "no_slider",
                                         "Product-Slider element not found"))
    /\ UNCHANGED <<fn, opts, container, doc, links, chosen, seen, out, base_to_full,
                   pending, groups,
                   requests, files, dl, answers,
                   targets, idx, stdout, sleeps, returned, writers>>

\* process_html_pick of every img of the pool, computed once
PickOf == [k \in DOMAIN Imgs |-> process_html_pick(Imgs[k])]

\* dict assignment d[k] = v
DictSet(d, k, v) == [x \in DOMAIN d \cup {k} |-> IF x = k THEN v ELSE d[x]]

\* one iteration of process_html's loop over slider.find_all("img")
process_html_img(k) ==
    /\ fn = "process_html"
    /\ pc = "imgs"
    /\ Len(doc) < MaxElems
    /\ LET c == PickOf[k]
           base == c.base
           fresh == Len(c.chosen_full) > 0 /\ base \notin seen
       IN  /\ chosen' = c.chosen_full
           /\ seen' = IF fresh THEN seen \cup {base} ELSE seen
           /\ out' = IF fresh THEN Append(out, base) ELSE out
           /\ base_to_full' = IF fresh THEN DictSet(base_to_full, base, c.chosen_full)
                              ELSE base_to_full
           /\ log' = IF fresh
                     THEN Append(log, log_event("image_selected", base, c.chosen_full,
                                                "selected",
                                                S_width_eq \o
                                                    (IF c.max_w # -1 THEN IntToStr(c.max_w)
                                                     ELSE S_src)))
                     ELSE log
    /\ doc' = Append(doc, k)
    /\ UNCHANGED <<fn, opts, container, pc, links, pending, groups,
                   requests, files, dl, answers,
                   targets, idx, stdout, sleeps, returned, writers>>

\* the end of the extraction without its extraction_complete record
process_html_complete_unlogged ==
    /\ fn = "process_html"
    /\ pc = "imgs"
    /\ pc' = IF opts.download THEN "download" ELSE "done"
    /\ UNCHANGED <<fn, opts, container, doc, links, chosen, seen, out, base_to_full,
                   pending, groups, log, requests, files, dl, answers,
                   targets, idx, stdout, sleeps, returned, writers>>

\* the end of the extraction counting the img elements read
process_html_complete_counts_imgs ==
    /\ fn = "process_html"
    /\ pc = "imgs"
    /\ pc' = IF opts.download THEN "download" ELSE "done"
    /\ log' = Append(log, log_event("extraction_complete", <<>>, <<>>, "count",
                                    S_images_eq \o IntToStr(Len(doc))))
    /\ UNCHANGED <<fn, opts, container, doc, links, chosen, seen, out, base_to_full,
                   pending, groups,
                   requests, files, dl, answers,
                   targets, idx, stdout, sleeps, returned, writers>>

\* the end of process_html's extraction: the count is logged; without
\* download the list is returned, with it download_dir is made and the loop
\* over unique_bases starts
process_html_complete ==
    /\ fn = "process_html"
    /\ pc = "imgs"
    /\ pc' = IF opts.download THEN "download" ELSE "done"
    /\ log' = Append(log, log_event("extraction_complete", <<>>, <<>>, "count",
                                    S_images_eq \o IntToStr(Len(out))))
    /\ UNCHANGED <<fn, opts, container, doc, links, chosen, seen, out, base_to_full,
                   pending, groups,
                   requests, files, dl, answers,
                   targets, idx, stdout, sleeps, returned, writers>>

(***************************************************************************)
(* process_html: the download loop                                         *)
(***************************************************************************)
S_image == <<"i","m","a","g","e">>

CT_jpeg == <<"i","m","a","g","e","/","j","p","e","g">>

CT_html == <<"t","e","x","t","/","h","t","m","l">>

\* len(resp.content) < 500
MinBytes == 500

\* what a server answers: status_code, the Content-Type header, len(content)
Responses ==
    {[status |-> 200, ctype |-> CT_jpeg, size |-> MinBytes],
     [status |-> 200, ctype |-> CT_jpeg, size |-> MinBytes - 1],
     [status |-> 200, ctype |-> CT_html, size |-> MinBytes],
     [status |-> 404, ctype |-> CT_html, size |-> MinBytes - 1],
     [status |-> 404, ctype |-> CT_jpeg, size |-> MinBytes],
     [status |-> 500, ctype |-> CT_jpeg, size |-> MinBytes]}

\* requests.get returns a response or raises
Outcomes == Responses \cup {[raised |-> "ConnectionError"]}

IsRaised(o) == "raised" \in DOMAIN o

\* requests.get(url): a URL that is not http(s) raises before anything is sent
requests_get(url, r) ==
    IF startswith(url, S_http_slashes) \/ startswith(url, S_https_slashes) THEN r
    ELSE IF find(url, <<":">>) # -1 THEN [raised |-> "InvalidSchema"]
    ELSE [raised |-> "MissingSchema"]

\* b if b.startswith("http") else ("https:" + b if b.startswith("//") else b)
ensure_protocol(b) ==
    IF startswith(b, S_http) THEN b
    ELSE IF startswith(b, S_slashes) THEN S_https \o b ELSE b

\* b.rsplit('/', 1)[-1]
last_segment(b) == Drop(b, rfind(b, <<"/">>) + 1)

\* the body of the loop for the i-th entry b, the server answering r1 to the
\* first request and r2 to the second if one is made
download_image(i, b, full_of, r1, r2) ==
    LET base_url == ensure_protocol(b)
        original_full == IF b \in DOMAIN full_of THEN full_of[b] ELSE base_url
        first == requests_get(base_url, r1)
        fallback == /\ ~IsRaised(first)
                    /\ \/ first.status = 404
                       \/ ~startswith(first.ctype, S_image)
                       \/ first.size < MinBytes
        alt_url == IF original_full # base_url THEN original_full ELSE <<>>
        again == fallback /\ Len(alt_url) > 0
        second == requests_get(ensure_protocol(alt_url), r2)
        resp == IF again THEN second ELSE first
        raised == IsRaised(resp)
        ok == /\ ~raised
              /\ resp.status < 400
              /\ startswith(resp.ctype, S_image)
        note == IF raised THEN <<resp.raised>>
                ELSE IF resp.status >= 400 THEN <<"HTTPError", " ">> \o IntToStr(resp.status)
                ELSE IF ~startswith(resp.ctype, S_image) THEN S_non_image \o resp.ctype
                ELSE S_size_eq \o IntToStr(resp.size)
        filename == IntToStr(i) \o <<"_">> \o last_segment(b)
    IN  [sent |-> <<[i |-> i, url |-> base_url]>>
                  \o (IF again THEN <<[i |-> i, url |-> ensure_protocol(alt_url)]>> ELSE <<>>),
         answers |-> IF again THEN <<first, second>> ELSE <<first>>,
         ok |-> ok,
         filename |-> filename,
         content |-> IF ok THEN [url |-> IF again THEN ensure_protocol(alt_url) ELSE base_url,
                                 status |-> resp.status, ctype |-> resp.ctype,
                                 size |-> resp.size]
                     ELSE <<>>,
         record |-> IF ok
                    THEN log_event("download_success", b, base_url,
                                   IntToStr(resp.status), note)
                    ELSE log_event("download_failure", b, base_url, "error", note)]

\* the download loop if a failed image ended it
process_html_download_abort(r1, r2) ==
    /\ fn = "process_html"
    /\ pc = "download"
    /\ dl <= Len(out)
    /\ LET d == download_image(dl, out[dl], base_to_full, r1, r2)
       IN  /\ requests' = requests \o d.sent
           /\ files' = IF d.ok THEN DictSet(files, d.filename, d.content) ELSE files
           /\ log' = Append(log, d.record)
           /\ answers' = d.answers
           /\ dl' = IF d.ok THEN dl + 1 ELSE Len(out) + 1
    /\ UNCHANGED <<fn, opts, container, pc, doc, links, chosen, seen, out, base_to_full,
                   pending, groups,
                   targets, idx, stdout, sleeps, returned, writers>>

\* one iteration of the loop over enumerate(unique_bases, start=1)
process_html_download(r1, r2) ==
    /\ fn = "process_html"
    /\ pc = "download"
    /\ dl <= Len(out)
    /\ LET d == download_image(dl, out[dl], base_to_full, r1, r2)
       IN  /\ requests' = requests \o d.sent
           /\ files' = IF d.ok THEN DictSet(files, d.filename, d.content) ELSE files
           /\ log' = Append(log, d.record)
           /\ answers' = d.answers
    /\ dl' = dl + 1
    /\ UNCHANGED <<fn, opts, container, pc, doc, links, chosen, seen, out, base_to_full,
                   pending, groups,
                   targets, idx, stdout, sleeps, returned, writers>>

\* the printable ASCII characters in code point order, from " " (32);
\* "U+0060" stands for the grave accent
Ascii ==
    <<" ", "!", "\"", "#", "$", "%", "&", "'", "(", ")", "*", "+", ",", "-", ".", "/",
      "0", "1", "2", "3", "4", "5", "6", "7", "8", "9", ":", ";", "<", "=", ">", "?",
      "@", "A", "B", "C", "D", "E", "F", "G", "H", "I", "J", "K", "L", "M", "N", "O",
      "P", "Q", "R", "S", "T", "U", "V", "W", "X", "Y", "Z", "[", "\\", "]", "^", "_",
      "U+0060", "a", "b", "c", "d", "e", "f", "g", "h", "i", "j", "k", "l", "m", "n", "o",
      "p", "q", "r", "s", "t", "u", "v", "w", "x", "y", "z", "{", "|", "}", "~">>

\* ord(c)
ord(c) == 31 + (CHOOSE k \in 1..Len(Ascii) : Ascii[k] = c)

\* a < b of two str: lexicographic by code point
RECURSIVE str_lt(_, _)
str_lt(a, b) ==
    IF Len(b) = 0 THEN FALSE
    ELSE IF Len(a) = 0 THEN TRUE
    ELSE IF a[1] = b[1] THEN str_lt(Tail(a), Tail(b))
    ELSE ord(a[1]) < ord(b[1])

\* sorted(names) of a set of distinct str
RECURSIVE sorted(_)
sorted(names) ==
    IF names = {} THEN <<>>
    ELSE LET least == CHOOSE x \in names : \A y \in names \ {x} : str_lt(x, y)
         IN  <<least>> \o sorted(names \ {least})

\* sorted(os.listdir(download_dir))
listdir_sorted == sorted(DOMAIN files)

\* ",".join(names)
RECURSIVE join(_)
join(names) ==
    IF Len(names) = 0 THEN <<>>
    ELSE IF Len(names) = 1 THEN names[1]
    ELSE names[1] \o <<",">> \o join(Tail(names))

\* after the loop: the directory is listed and the list returned
process_html_scan ==
    /\ fn = "process_html"
    /\ pc = "download"
    /\ dl > Len(out)
    /\ pc' = "done"
    /\ log' = Append(log, log_event("download_directory_scan", <<>>, <<>>, "files",
                                    join(listdir_sorted)))
    /\ UNCHANGED <<fn, opts, container, doc, links, chosen, seen, out, base_to_full,
                   pending, groups, requests, files, dl, answers,
                   targets, idx, stdout, sleeps, returned, writers>>

\* the answers to a second request: drawn only when the first answer r1 leads
\* to one
SecondOutcomes(r1) ==
    IF /\ pc = "download"
       /\ dl <= Len(out)
       /\ Len(download_image(dl, out[dl], base_to_full, r1, r1).sent) = 2
    THEN Outcomes ELSE {r1}

\* the img elements of the pages that are downloaded
DownloadPool == {2, 3, 18}

\* process_html called with download set or not
DownloadInit ==
    /\ fn = "process_html"
    /\ opts \in {[DefaultOptions EXCEPT !.download = d] : d \in BOOLEAN}
    /\ container \in BOOLEAN
    /\ pc = "start"
    /\ doc = <<>>
    /\ links = <<>>
    /\ chosen = <<>>
    /\ seen = {}
    /\ out = <<>>
    /\ base_to_full = <<>>
    /\ pending = <<>>
    /\ groups = <<>>
    /\ log = <<>>
    /\ requests = <<>>
    /\ files = <<>>
    /\ dl = 1
    /\ answers = <<>>
    /\ targets = <<>>
    /\ idx = 0
    /\ stdout = <<>>
    /\ sleeps = <<>>
    /\ returned = <<>>
    /\ writers = <<>>

DownloadNext ==
    \/ find_container
    \/ \E k \in DownloadPool : process_html_img(k)
    \/ process_html_complete
    \/ \E r1 \in Outcomes : \E r2 \in SecondOutcomes(r1) : process_html_download(r1, r2)
    \/ process_html_scan

DownloadSpec == DownloadInit /\ [][DownloadNext]_vars

(***************************************************************************)
(* extract_max_image_bases / extract_max_full_urls                         *)
(* (the two loops are the same text; they differ in the return statement)  *)
(***************************************************************************)
\* the candidates one img contributes, in the order the loop body reads them:
\* src first, then the srcset entries
img_candidates(img) ==
    LET cs == (IF Len(img.src) > 0
               THEN <<[url |-> normalize_url(img.src),
                       w |-> parse_width(normalize_url(img.src), <<>>)]>>
               ELSE <<>>) \o srcset_candidates(img.srcset)
    IN  [i \in 1..Len(cs) |-> [url |-> cs[i].url, w |-> cs[i].w, b |-> base_jpg(cs[i].url)]]

\* img_candidates of every img of the pool, computed once
CandidatesOf == [k \in DOMAIN Imgs |-> img_candidates(Imgs[k])]

\* the position of key b in the dict, 0 when groups.get(b) is None
GroupIndex(g, b) ==
    IF \E i \in 1..Len(g) : g[i].b = b THEN CHOOSE i \in 1..Len(g) : g[i].b = b ELSE 0

\* fold_candidate with the comparison w >= current[0]
fold_candidate_ge(g, c) ==
    LET i == GroupIndex(g, c.b)
        entry == [b |-> c.b, w |-> c.w, url |-> c.url]
    IN  IF i = 0 THEN Append(g, entry)
        ELSE IF c.w >= g[i].w THEN [g EXCEPT ![i] = entry]
        ELSE g

\* fold_candidate over a dict that moves a replaced key to the end
fold_candidate_reinsert(g, c) ==
    LET i == GroupIndex(g, c.b)
        entry == [b |-> c.b, w |-> c.w, url |-> c.url]
    IN  IF i = 0 THEN Append(g, entry)
        ELSE IF c.w > g[i].w
        THEN Append(SubSeq(g, 1, i - 1) \o SubSeq(g, i + 1, Len(g)), entry)
        ELSE g

\* current = groups.get(b); if current is None or w > current[0]: groups[b] = (w, url)
fold_candidate(g, c) ==
    LET i == GroupIndex(g, c.b)
        entry == [b |-> c.b, w |-> c.w, url |-> c.url]
    IN  IF i = 0 THEN Append(g, entry)
        ELSE IF c.w > g[i].w THEN [g EXCEPT ![i] = entry]
        ELSE g

ExtractMax == {"extract_max_image_bases", "extract_max_full_urls"}

\* for img in product_slider.find_all("img"): the attributes of the next img
extract_max_img(k) ==
    /\ fn \in ExtractMax
    /\ pc = "imgs"
    /\ pending = <<>>
    /\ Len(doc) < MaxElems
    /\ doc' = Append(doc, k)
    /\ pending' = CandidatesOf[k]
    /\ UNCHANGED <<fn, opts, container, pc, links, chosen, seen, out, base_to_full,
                   groups, log,
                   requests, files, dl, answers,
                   targets, idx, stdout, sleeps, returned, writers>>

\* one candidate folded into groups
extract_max_fold ==
    /\ fn \in ExtractMax
    /\ pc = "imgs"
    /\ pending # <<>>
    /\ groups' = fold_candidate(groups, Head(pending))
    /\ pending' = Tail(pending)
    /\ UNCHANGED <<fn, opts, container, pc, doc, links, chosen, seen, out,
                   base_to_full, log,
                   requests, files, dl, answers,
                   targets, idx, stdout, sleeps, returned, writers>>

\* return list(groups.keys())
extract_max_image_bases_return ==
    /\ fn = "extract_max_image_bases"
    /\ pc = "imgs"
    /\ pending = <<>>
    /\ out' = [i \in 1..Len(groups) |-> groups[i].b]
    /\ pc' = "done"
    /\ UNCHANGED <<fn, opts, container, doc, links, chosen, seen, base_to_full,
                   pending, groups, log,
                   requests, files, dl, answers,
                   targets, idx, stdout, sleeps, returned, writers>>

\* return [v[1] for v in groups.values()]
extract_max_full_urls_return ==
    /\ fn = "extract_max_full_urls"
    /\ pc = "imgs"
    /\ pending = <<>>
    /\ out' = [i \in 1..Len(groups) |-> groups[i].url]
    /\ pc' = "done"
    /\ UNCHANGED <<fn, opts, container, doc, links, chosen, seen, base_to_full,
                   pending, groups, log,
                   requests, files, dl, answers,
                   targets, idx, stdout, sleeps, returned, writers>>

(***************************************************************************)
(* extract_image_srcs (both copies) and get_slider_imgs                    *)
(***************************************************************************)
\* the key extractor each resolver calls
key_of(f, url) ==
    CASE f \in {"process_html", "extract_max_image_bases", "extract_max_full_urls"} ->
            base_jpg(url)
      [] f = "extract_image_srcs_engine" -> strip_to_jpg_png(url)
      [] OTHER -> strip_to_jpg(url)

\* extract_image_srcs taking src before d-src
d_src_candidates_src_first(img, include_both) ==
    IF Len(img.src) > 0 /\ ~startswith(img.src, S_data)
    THEN <<img.src>> \o
         (IF /\ include_both
             /\ Len(img.d_src) > 0
             /\ ~startswith(img.d_src, S_data)
             /\ img.src # img.d_src
          THEN <<img.d_src>> ELSE <<>>)
    ELSE IF Len(img.d_src) > 0 /\ ~startswith(img.d_src, S_data) THEN <<img.d_src>>
    ELSE <<>>

\* the candidates list extract_image_srcs builds for one img
d_src_candidates(img, include_both) ==
    IF Len(img.d_src) > 0 /\ ~startswith(img.d_src, S_data)
    THEN <<img.d_src>> \o
         (IF /\ include_both
             /\ Len(img.src) > 0
             /\ ~startswith(img.src, S_data)
             /\ img.src # img.d_src
          THEN <<img.src>> ELSE <<>>)
    ELSE IF Len(img.src) > 0 /\ ~startswith(img.src, S_data) THEN <<img.src>>
    ELSE <<>>

\* norm = normalize(c) and base = strip_to_jpg(norm) of each candidate
candidate_bases(f, cands) == [i \in 1..Len(cands) |-> key_of(f, normalize(cands[i]))]

\* collect_bases without the test of seen
RECURSIVE collect_bases_unchecked(_, _)
collect_bases_unchecked(bases, st) ==
    IF Len(bases) = 0 THEN st
    ELSE collect_bases_unchecked(Tail(bases),
             [seen |-> st.seen \cup {Head(bases)}, out |-> Append(st.out, Head(bases))])

\* for c in candidates: the append of an unseen base
RECURSIVE collect_bases(_, _)
collect_bases(bases, st) ==
    IF Len(bases) = 0 THEN st
    ELSE LET base == Head(bases)
         IN  collect_bases(Tail(bases),
                 IF base \notin st.seen
                 THEN [seen |-> st.seen \cup {base}, out |-> Append(st.out, base)]
                 ELSE st)

\* the bases of every img of the pool, by resolver and include_both, computed once
BasesOf ==
    [f \in {"extract_image_srcs_engine", "extract_image_srcs"} |->
        [b \in BOOLEAN |->
            [k \in DOMAIN Imgs |->
                candidate_bases(f, d_src_candidates(Imgs[k], b))]]]

\* the src candidate of get_slider_imgs: absent and data: sources are skipped
slider_src_candidates(img) ==
    IF Len(img.src) = 0 \/ startswith(img.src, S_data) THEN <<>> ELSE <<img.src>>

SliderBasesOf ==
    [k \in DOMAIN Imgs |-> candidate_bases("get_slider_imgs", slider_src_candidates(Imgs[k]))]

\* one iteration of extract_image_srcs's loop over container.find_all("img")
extract_image_srcs_img(k) ==
    /\ fn \in {"extract_image_srcs_engine", "extract_image_srcs"}
    /\ pc = "imgs"
    /\ Len(doc) < MaxElems
    /\ LET st == collect_bases(BasesOf[fn][opts.include_both][k],
                               [seen |-> seen, out |-> out])
       IN  seen' = st.seen /\ out' = st.out
    /\ doc' = Append(doc, k)
    /\ UNCHANGED <<fn, opts, container, pc, links, chosen, base_to_full, pending,
                   groups, log,
                   requests, files, dl, answers,
                   targets, idx, stdout, sleeps, returned, writers>>

\* one iteration of get_slider_imgs's loop
get_slider_imgs_img(k) ==
    /\ fn = "get_slider_imgs"
    /\ pc = "imgs"
    /\ Len(doc) < MaxElems
    /\ LET st == collect_bases(SliderBasesOf[k], [seen |-> seen, out |-> out])
       IN  seen' = st.seen /\ out' = st.out
    /\ doc' = Append(doc, k)
    /\ UNCHANGED <<fn, opts, container, pc, links, chosen, base_to_full, pending,
                   groups, log,
                   requests, files, dl, answers,
                   targets, idx, stdout, sleeps, returned, writers>>

(***************************************************************************)
(* get_product_slider_imgs (extractionv3.py)                               *)
(***************************************************************************)
\* the de-duplication of extract_img_sources: data: dropped, first kept
RECURSIVE dedupe_ordered(_, _)
dedupe_ordered(cands, ordered) ==
    IF Len(cands) = 0 THEN ordered
    ELSE LET c == Head(cands)
         IN  dedupe_ordered(Tail(cands),
                 IF startswith(c, S_data) THEN ordered
                 ELSE IF \E i \in 1..Len(ordered) : ordered[i] = c THEN ordered
                 ELSE Append(ordered, c))

\* normalize(val) for a present attribute
attr_candidate(val) == IF Len(val) > 0 THEN <<normalize(val)>> ELSE <<>>

\* extractionv3.py extract_img_sources
extract_img_sources(img_tag, high_res) ==
    LET best == IF high_res THEN choose_best_variant(img_tag) ELSE <<>>
        candidates == (IF Len(best) > 0 THEN <<best>> ELSE <<>>)
                      \o attr_candidate(img_tag.src)
                      \o attr_candidate(img_tag.data_src)
                      \o attr_candidate(img_tag.data_msrc)
                      \o attr_candidate(img_tag.d_src)
    IN  dedupe_ordered(candidates, <<>>)

\* base = strip_to_jpg(full) of each source of one img
img_entries(img_tag, high_res) ==
    LET fulls == extract_img_sources(img_tag, high_res)
    IN  [i \in 1..Len(fulls) |->
            [chosen_url |-> fulls[i], base_jpg |-> strip_to_jpg(fulls[i]), type |-> "img"]]

\* for full in extract_img_sources(img, high_res): the append of an unseen base
RECURSIVE collect_entries(_, _)
collect_entries(entries, st) ==
    IF Len(entries) = 0 THEN st
    ELSE LET e == Head(entries)
         IN  collect_entries(Tail(entries),
                 IF Len(e.chosen_url) > 0 /\ e.base_jpg \notin st.seen
                 THEN [seen |-> st.seen \cup {e.base_jpg}, out |-> Append(st.out, e)]
                 ELSE st)

\* img_entries and choose_best_variant of every img of the pool, computed once
EntriesOf == [h \in BOOLEAN |-> [k \in DOMAIN Imgs |-> img_entries(Imgs[k], h)]]

BestOf == [k \in DOMAIN Imgs |-> choose_best_variant(Imgs[k])]

\* href_norm and base of one anchor
anchor_entry(href) ==
    [chosen_url |-> normalize(href), base_jpg |-> strip_to_jpg(normalize(href)),
     type |-> "anchor"]

AnchorOf == [h \in DOMAIN Hrefs |-> anchor_entry(Hrefs[h])]

\* one iteration of the loop over slider.find_all("img")
get_product_slider_imgs_img(k) ==
    /\ fn = "get_product_slider_imgs"
    /\ pc = "imgs"
    /\ Len(doc) < MaxElems
    /\ LET st == collect_entries(EntriesOf[opts.high_res][k],
                                 [seen |-> seen, out |-> out])
       IN  seen' = st.seen /\ out' = st.out
    /\ chosen' = IF opts.high_res THEN BestOf[k] ELSE <<>>
    /\ doc' = Append(doc, k)
    /\ UNCHANGED <<fn, opts, container, pc, links, base_to_full, pending, groups, log,
                   requests, files, dl, answers,
                   targets, idx, stdout, sleeps, returned, writers>>

\* the img loop is over: if include_links, the anchors are read next
get_product_slider_imgs_links ==
    /\ fn = "get_product_slider_imgs"
    /\ pc = "imgs"
    /\ pc' = IF opts.include_links THEN "anchors" ELSE "done"
    /\ UNCHANGED <<fn, opts, container, doc, links, chosen, seen, out, base_to_full,
                   pending, groups, log,
                   requests, files, dl, answers,
                   targets, idx, stdout, sleeps, returned, writers>>

\* the anchor loop without the test of seen
get_product_slider_imgs_anchor_unseen(h) ==
    /\ fn = "get_product_slider_imgs"
    /\ pc = "anchors"
    /\ Len(doc) + Len(links) < MaxElems
    /\ LET a == AnchorOf[h]
           keep == /\ Len(Hrefs[h]) > 0
                   /\ ~startswith(a.chosen_url, S_data)
                   /\ endswith(lower(a.base_jpg), S_jpg)
       IN  /\ seen' = IF keep THEN seen \cup {a.base_jpg} ELSE seen
           /\ out' = IF keep THEN Append(out, a) ELSE out
    /\ links' = Append(links, h)
    /\ UNCHANGED <<fn, opts, container, pc, doc, chosen, base_to_full, pending,
                   groups, log,
                   requests, files, dl, answers,
                   targets, idx, stdout, sleeps, returned, writers>>

\* one iteration of the loop over slider.find_all("a")
get_product_slider_imgs_anchor(h) ==
    /\ fn = "get_product_slider_imgs"
    /\ pc = "anchors"
    /\ Len(doc) + Len(links) < MaxElems
    /\ LET a == AnchorOf[h]
           keep == /\ Len(Hrefs[h]) > 0
                   /\ ~startswith(a.chosen_url, S_data)
                   /\ a.base_jpg \notin seen
                   /\ endswith(lower(a.base_jpg), S_jpg)
       IN  /\ seen' = IF keep THEN seen \cup {a.base_jpg} ELSE seen
           /\ out' = IF keep THEN Append(out, a) ELSE out
    /\ links' = Append(links, h)
    /\ UNCHANGED <<fn, opts, container, pc, doc, chosen, base_to_full, pending,
                   groups, log,
                   requests, files, dl, answers,
                   targets, idx, stdout, sleeps, returned, writers>>

(***************************************************************************)
(* extract_img_srcs (Brillian) and extract_img_links_from_limelight        *)
(***************************************************************************)
\* urllib.parse.urljoin for a reference that is absolute, protocol-relative,
\* root-relative or a plain relative path (no dot segments)
urljoin(base_url, ref) ==
    LET colon == find(base_url, <<":">>)
        host_end == find(Drop(base_url, colon + 3), <<"/">>)
        origin == IF host_end = -1 THEN base_url ELSE Take(base_url, colon + 3 + host_end)
        dir == IF host_end = -1 THEN base_url \o <<"/">>
               ELSE Take(base_url, rfind(base_url, <<"/">>) + 1)
    IN  IF \/ startswith(ref, S_https) \/ startswith(ref, S_http_colon)
           \/ startswith(ref, S_data)
        THEN ref
        ELSE IF startswith(ref, S_slashes) THEN Take(base_url, colon + 1) \o ref
        ELSE IF startswith(ref, <<"/">>) THEN origin \o ref
        ELSE dir \o ref

\* whether one of exts occurs in s, letter case ignored, at 0-based offset i
ExtAt(s, exts, i) == \E e \in exts : MatchAt(lower(s), e, i)

ExtLenAt(s, exts, i) == Len(CHOOSE e \in exts : MatchAt(lower(s), e, i))

\* re.search(r"(.+?\.(jpg|png|webp))", src, re.IGNORECASE).group(1), or the
\* empty str when nothing matches: the shortest prefix of at least one
\* character followed by an extension
brillian_match(src) ==
    LET exts == {S_jpg, S_png, S_webp}
        hits == {i \in 1..Len(src) : ExtAt(src, exts, i)}
    IN  IF hits = {} THEN <<>>
        ELSE Take(src, Min(hits) + ExtLenAt(src, exts, Min(hits)))

\* what one img appends to img_srcs: the list of at most one truncated URL
brillian_links(img) ==
    LET m == brillian_match(urljoin(U_page, img.src))
    IN  IF Len(img.src) > 0 /\ Len(m) > 0 THEN <<m>> ELSE <<>>

BrillianOf == [k \in DOMAIN Imgs |-> brillian_links(Imgs[k])]

\* one iteration of extract_img_srcs's loop
extract_img_srcs_img(k) ==
    /\ fn = "extract_img_srcs"
    /\ pc = "imgs"
    /\ Len(doc) < MaxElems
    /\ out' = out \o BrillianOf[k]
    /\ doc' = Append(doc, k)
    /\ UNCHANGED <<fn, opts, container, pc, links, chosen, seen, base_to_full,
                   pending, groups, log,
                   requests, files, dl, answers,
                   targets, idx, stdout, sleeps, returned, writers>>

\* download_limelight_batch.py IMAGE_EXTENSIONS
IMAGE_EXTENSIONS == {S_jpg, S_jpeg, S_png, S_webp, S_gif, S_bmp, S_tiff}

\* [^\s"'] of the limelight pattern
UrlChar(c) == ~IsSpace(c) /\ c \notin {"\"", "'"}

\* the end (exclusive, 0-based) of the match of
\*   //[^\s"']+?(ext)(?:\?[^"']*)?
\* whose "//" stands at offset q, or -1
limelight_end(s, q) ==
    LET ends == {i \in (q + 3)..Len(s) :
                    /\ ExtAt(s, IMAGE_EXTENSIONS, i)
                    /\ \A j \in (q + 3)..i : UrlChar(s[j])}
        e == Min(ends) + ExtLenAt(s, IMAGE_EXTENSIONS, Min(ends))
        query == {j \in e..Len(s) : \A x \in (e + 1)..j : s[x] \notin {"\"", "'"}}
    IN  IF ~MatchAt(s, S_slashes, q) \/ ends = {} THEN -1
        ELSE IF e < Len(s) /\ s[e + 1] = "?"
        THEN CHOOSE j \in query : \A x \in query : x <= j
        ELSE e

\* the match of the whole pattern that starts at offset p: [start, end) or <<>>
limelight_at(s, p) ==
    LET scheme == IF MatchAt(s, S_https, p) THEN 6
                  ELSE IF MatchAt(s, S_http_colon, p) THEN 5 ELSE 0
    IN  IF scheme > 0 /\ limelight_end(s, p + scheme) # -1
        THEN <<p, limelight_end(s, p + scheme)>>
        ELSE IF limelight_end(s, p) # -1 THEN <<p, limelight_end(s, p)>>
        ELSE <<>>

\* re.search(...).group(0): the match at the lowest offset, or the empty str
limelight_match(s) ==
    LET starts == {p \in 0..Len(s) : limelight_at(s, p) # <<>>}
        m == limelight_at(s, Min(starts))
    IN  IF starts = {} THEN <<>> ELSE SubSeq(s, m[1] + 1, m[2])

\* what one img appends to links: the list of at most one URL
limelight_links(img) ==
    LET m == limelight_match(img.src)
        url == IF startswith(m, S_slashes) THEN S_https \o m ELSE m
    IN  IF Len(img.src) > 0 /\ Len(m) > 0 THEN <<url>> ELSE <<>>

LimelightOf == [k \in DOMAIN Imgs |-> limelight_links(Imgs[k])]

\* one iteration of extract_img_links_from_limelight's loop
extract_img_links_from_limelight_img(k) ==
    /\ fn = "extract_img_links_from_limelight"
    /\ pc = "imgs"
    /\ Len(doc) < MaxElems
    /\ out' = out \o LimelightOf[k]
    /\ doc' = Append(doc, k)
    /\ UNCHANGED <<fn, opts, container, pc, links, chosen, seen, base_to_full,
                   pending, groups, log,
                   requests, files, dl, answers,
                   targets, idx, stdout, sleeps, returned, writers>>

\* the return statement of the resolvers that return the list they built
return_result ==
    /\ \/ /\ fn \in {"extract_image_srcs_engine", "extract_image_srcs",
                     "get_slider_imgs", "extract_img_srcs",
                     "extract_img_links_from_limelight"}
          /\ pc = "imgs"
       \/ /\ fn = "get_product_slider_imgs"
          /\ pc = "anchors"
    /\ pc' = "done"
    /\ UNCHANGED <<fn, opts, container, doc, links, chosen, seen, out, base_to_full,
                   pending, groups, log,
                   requests, files, dl, answers,
                   targets, idx, stdout, sleeps, returned, writers>>

Next ==
    \/ find_container
    \/ \E k \in ImgPool(fn) : process_html_img(k)
    \/ process_html_complete
    \/ \E k \in ImgPool(fn) : extract_max_img(k)
    \/ extract_max_fold
    \/ extract_max_image_bases_return
    \/ extract_max_full_urls_return
    \/ \E k \in ImgPool(fn) : extract_image_srcs_img(k)
    \/ \E k \in ImgPool(fn) : get_slider_imgs_img(k)
    \/ \E k \in ImgPool(fn) : get_product_slider_imgs_img(k)
    \/ get_product_slider_imgs_links
    \/ \E h \in 1..Len(Hrefs) : get_product_slider_imgs_anchor(h)
    \/ \E k \in ImgPool(fn) : extract_img_srcs_img(k)
    \/ \E k \in ImgPool(fn) : extract_img_links_from_limelight_img(k)
    \/ return_result

Spec == Init /\ [][Next]_vars

(***************************************************************************)
(* Properties                                                              *)
(***************************************************************************)
\* the img element read last
LastImg == Imgs[doc[Len(doc)]]

\* whether no two entries of a sequence are equal
Distinct(seq) == \A i, j \in 1..Len(seq) : i # j => seq[i] # seq[j]

\* the URL of the first entry whose width no entry exceeds
FirstOfGreatestWidth(vs) ==
    vs[CHOOSE i \in 1..Len(vs) :
          /\ \A j \in 1..Len(vs) : vs[j].w <= vs[i].w
          /\ \A j \in 1..(i - 1) : vs[j].w < vs[i].w].url

\* the deduplicating resolvers
Deduplicating ==
    {"process_html", "extract_image_srcs_engine", "extract_image_srcs",
     "get_slider_imgs", "get_product_slider_imgs"}

\* the URL of a result entry
EntryUrl(e) == IF fn = "get_product_slider_imgs" THEN e.chosen_url ELSE e

\* the canonical key of a result entry, by the key extractor of the resolver
EntryKey(e) == key_of(fn, EntryUrl(e))

\* the URL cut right after the first occurrence, letter case ignored, of one
\* of the extensions exts; the URL itself when none occurs
TruncateAfter(url, exts) ==
    LET hits == {i \in 0..Len(url) : ExtAt(url, exts, i)}
    IN  IF hits = {} THEN url ELSE Take(url, Min(hits) + ExtLenAt(url, exts, Min(hits)))

\* C1: process_html on the container of the three img elements (1) srcset
\* "p1-200.jpg 200w, p1-800.jpg 800w", (2) src "//cdn/p2.png?v=3", (3) src
\* "data:image/png;base64,AAAA" returns exactly p1-800.jpg and then
\* https://cdn/p2.png.
C1_EndToEndScenario ==
    (fn = "process_html" /\ pc = "done" /\ doc = <<1, 2, 3>>)
        => out = <<U_p1_800, U_p2_key>>

\* C2: for the srcset of one img element the resolver (process_html's inline
\* loop, choose_best_variant over parse_srcset) selects the entry of greatest
\* width and, among several of greatest width, the first in attribute order;
\* "x400.jpg 400w, x1200.jpg 1200w" gives x1200.jpg and
\* "a.jpg 800w, b.jpg 800w" gives a.jpg.
C2_GreatestWidthFirstSeen ==
    /\ (fn = "process_html" /\ Len(doc) > 0 /\ Len(srcset_candidates(LastImg.srcset)) > 0)
          => chosen = FirstOfGreatestWidth(srcset_candidates(LastImg.srcset))
    /\ (/\ fn = "get_product_slider_imgs"
        /\ opts.high_res
        /\ Len(doc) > 0
        /\ Len(parse_srcset(LastImg.srcset)) > 0)
          => chosen = FirstOfGreatestWidth(parse_srcset(LastImg.srcset))
    /\ (/\ fn \in {"process_html", "get_product_slider_imgs"}
        /\ opts.high_res
        /\ Len(doc) > 0)
          => /\ LastImg.srcset = U_srcset_x => chosen = U_x1200
             /\ LastImg.srcset = U_srcset_tie => chosen = U_a

\* C2 witness: process_html has read the img whose srcset is the tie
\* "a.jpg 800w, b.jpg 800w" and chose a.jpg.
C2_Witness ==
    /\ fn = "process_html"
    /\ Len(doc) > 0
    /\ LastImg.srcset = U_srcset_tie
    /\ chosen = U_a

C4_DuplicateFree ==
    fn \in {"extract_img_srcs", "extract_img_links_from_limelight"} =>
        \A i, j \in 1..Len(out) :
            i # j => TruncateAfter(out[i], IMAGE_EXTENSIONS)
                        # TruncateAfter(out[j], IMAGE_EXTENSIONS)

\* every candidate of the img elements d, in the order the loop reads them
RECURSIVE AllCandidates(_)
AllCandidates(d) ==
    IF Len(d) = 0 THEN <<>>
    ELSE AllCandidates(SubSeq(d, 1, Len(d) - 1)) \o CandidatesOf[d[Len(d)]]

\* the candidates extract_max_* has folded into groups so far
Folded ==
    LET all == AllCandidates(doc)
    IN  SubSeq(all, 1, Len(all) - Len(pending))

\* the first-seen candidate among those of greatest width for key b
FirstOfGreatestFor(cs, b) ==
    cs[CHOOSE i \in 1..Len(cs) :
          /\ cs[i].b = b
          /\ \A j \in 1..Len(cs) : cs[j].b = b => cs[j].w <= cs[i].w
          /\ \A j \in 1..(i - 1) : cs[j].b = b => cs[j].w < cs[i].w]

\* the widths of a candidate list
Widths(cs) == [i \in 1..Len(cs) |-> cs[i].w]

\* C5 (state part): in extract_max_full_urls every group holds the first-seen
\* candidate among those of greatest width folded in so far for its key, and
\* the list returned holds these URLs; the width is the w descriptor, else the
\* width= query parameter, else 0.
C5_GroupsHoldFirstOfGreatest ==
    fn = "extract_max_full_urls" =>
        /\ \A i \in 1..Len(groups) :
              LET c == FirstOfGreatestFor(Folded, groups[i].b)
              IN  groups[i].url = c.url /\ groups[i].w = c.w
        /\ pc = "done" => out = [i \in 1..Len(groups) |->
                                    FirstOfGreatestFor(Folded, groups[i].b).url]
        /\ Widths(img_candidates(Imgs[6])) = <<100, 900, 50>>
        /\ Widths(img_candidates(Imgs[7])) = <<0, 800, 800>>

\* C5 (step part): a fold never lowers a group's stored width and replaces a
\* group's (width, url) only by a candidate of strictly greater width.
C5_ReplacedOnlyByGreater ==
    (fn = "extract_max_full_urls" /\ Len(groups') >= Len(groups)) =>
        \A i \in 1..Len(groups) :
            /\ groups'[i].w >= groups[i].w
            /\ groups'[i] # groups[i] => groups'[i].w > groups[i].w

\* C5: in extract_max_full_urls a group's stored (width, url) is replaced only
\* by a candidate of strictly greater width, the stored width never decreases
\* while candidates are folded in, and the URL finally returned for each key
\* is the first-seen candidate among those of greatest width for that key.
C5_MaxFullUrls ==
    [] C5_GroupsHoldFirstOfGreatest /\ [][C5_ReplacedOnlyByGreater]_vars

\* C5 witness: extract_max_full_urls has returned after a tie for key a.jpg
\* (800w twice, the first kept) and a later replacement by the 900w candidate.
C5_Witness ==
    /\ fn = "extract_max_full_urls"
    /\ pc = "done"
    /\ doc = <<5, 7, 6>>
    /\ out = <<U_a_w700, U_b, U_c_w800>>

\* the candidates process_html observes in one img: its srcset entries or,
\* when it has none, its src with no width information (width 0)
ObservedBy(img) ==
    LET entries == srcset_candidates(img.srcset)
    IN  IF Len(entries) > 0
        THEN {[url |-> entries[i].url, w |-> entries[i].w, b |-> base_jpg(entries[i].url)] :
                 i \in 1..Len(entries)}
        ELSE IF Len(img.src) > 0
        THEN {[url |-> normalize_url(img.src), w |-> 0, b |-> base_jpg(normalize_url(img.src))]}
        ELSE {}

ObservedIn(d) == UNION {ObservedBy(Imgs[d[k]]) : k \in 1..Len(d)}

\* C6: in process_html the full URL kept for each canonical key (base_to_full)
\* is a candidate of the highest width among all candidates observed for that
\* key across every img element read.
C6_BaseToFullIsWidest ==
    fn = "process_html" =>
        \A b \in DOMAIN base_to_full :
            \E c \in ObservedIn(doc) :
                /\ c.b = b
                /\ c.url = base_to_full[b]
                /\ \A c2 \in ObservedIn(doc) : c2.b = b => c2.w <= c.w

\* the keys of the candidates of the img elements d in document order: the
\* src of an img before its srcset entries
RECURSIVE KeysInDocumentOrder(_)
KeysInDocumentOrder(d) ==
    IF Len(d) = 0 THEN <<>>
    ELSE LET img == Imgs[d[Len(d)]]
             entries == srcset_candidates(img.srcset)
         IN  KeysInDocumentOrder(SubSeq(d, 1, Len(d) - 1))
                \o (IF Len(img.src) > 0 THEN <<base_jpg(normalize_url(img.src))>> ELSE <<>>)
                \o [i \in 1..Len(entries) |-> base_jpg(entries[i].url)]

\* a sequence without the later occurrences of its elements
RECURSIVE FirstSeen(_)
FirstSeen(seq) ==
    IF Len(seq) = 0 THEN <<>>
    ELSE LET front == FirstSeen(SubSeq(seq, 1, Len(seq) - 1))
             x == seq[Len(seq)]
         IN  IF \E i \in 1..Len(front) : front[i] = x THEN front ELSE Append(front, x)

\* C7: extract_max_image_bases and extract_max_full_urls return one entry per
\* canonical key, in the order in which the keys were first observed (src
\* before the srcset entries of the same img, img elements in document
\* order); a candidate of greater width folded in later replaces the URL of
\* its group and leaves the group in its position.
C7_FirstSeenOrder ==
    fn \in ExtractMax =>
        /\ [i \in 1..Len(groups) |-> groups[i].b]
              = FirstSeen([i \in 1..Len(Folded) |-> Folded[i].b])
        /\ pending = <<>> =>
              [i \in 1..Len(groups) |-> groups[i].b] = FirstSeen(KeysInDocumentOrder(doc))
        /\ pc = "done" =>
              [i \in 1..Len(out) |-> base_jpg(out[i])] = FirstSeen(KeysInDocumentOrder(doc))
        /\ (pc = "done" /\ fn = "extract_max_image_bases") =>
              out = FirstSeen(KeysInDocumentOrder(doc))

\* C7 witness: extract_max_full_urls has returned for a container in which
\* key b.jpg was seen first (as a src) and key a.jpg had its URL replaced by a
\* wider candidate of a later img; the order is still b.jpg, a.jpg.
C7_Witness ==
    /\ fn = "extract_max_full_urls"
    /\ pc = "done"
    /\ doc = <<17, 6>>
    /\ out = <<U_b, U_a_w700>>

\* C8: both canonical-key extractors, base_jpg and strip_to_jpg, match the
\* extension in any letter case: the key of a URL containing .jpg is the
\* prefix ending right after the first occurrence, and a URL without it is
\* its own key.
C8_KeysIgnoreLetterCase ==
    /\ fn = "process_html" =>
          \A b \in DOMAIN base_to_full : b = TruncateAfter(base_to_full[b], {S_jpg})
    /\ fn = "get_product_slider_imgs" =>
          \A i \in 1..Len(out) :
              out[i].base_jpg = TruncateAfter(out[i].chosen_url, {S_jpg})

\* the candidates extract_image_srcs takes from each img element of the pool,
\* cut after their first extension of exts
TruncatedCandidates(exts) ==
    [both \in BOOLEAN |->
        [k \in DOMAIN Imgs |->
            LET cands == d_src_candidates(Imgs[k], both)
            IN  {TruncateAfter(normalize(cands[i]), exts) : i \in 1..Len(cands)}]]

AnyExtensionKeys == TruncatedCandidates(IMAGE_EXTENSIONS)

JpgOrPngKeys == TruncatedCandidates({S_jpg, S_png})

\* the result holds, exactly once, each of the keys of the img elements read,
\* and nothing else
CollapsedInto(keys) ==
    LET want == UNION {keys[opts.include_both][doc[k]] : k \in 1..Len(doc)}
    IN  /\ \A x \in want : Cardinality({i \in 1..Len(out) : out[i] = x}) = 1
        /\ \A i \in 1..Len(out) : out[i] \in want

\* C9 as stated: strip_to_jpg of ExtractionEngine cuts a URL right after the
\* first occurrence of any of .jpg, .jpeg, .png, .webp, .gif, .bmp, .tiff, so
\* img elements whose URLs differ only behind such an extension give a single
\* entry.
C9_TruncatesAfterAnyExtension ==
    fn = "extract_image_srcs_engine" => CollapsedInto(AnyExtensionKeys)

\* C9 as amended: strip_to_jpg of ExtractionEngine cuts a URL right after the
\* first occurrence, letter case ignored, of .jpg or .png and leaves every
\* other URL whole, so img elements whose URLs differ only by a query string
\* or fragment behind .jpg or .png give a single entry of extract_image_srcs.
C9_TruncatesAfterJpgOrPng ==
    fn = "extract_image_srcs_engine" => CollapsedInto(JpgOrPngKeys)

\* C9 witness: extract_image_srcs has returned two entries for three img
\* elements, two of which differ only by the query string behind .png, the
\* third carrying a fragment behind .jpg.
C9_Witness ==
    /\ fn = "extract_image_srcs_engine"
    /\ pc = "done"
    /\ doc = <<2, 12, 15>>
    /\ out = <<U_p2_key, U_a>>

\* C10: no entry of the list of a resolver (process_html, extract_image_srcs,
\* get_slider_imgs, get_product_slider_imgs) begins with data:, so an img
\* whose only source is a data-URI src contributes nothing.
C10_NoDataUriEntry ==
    fn \in Deduplicating =>
        \A i \in 1..Len(out) : ~startswith(EntryUrl(out[i]), S_data)

(***************************************************************************)
(* The normalizers on their own: a URL is drawn, normalized, and the       *)
(* result normalized again.                                                *)
(***************************************************************************)
\* the longest tail of a drawn URL
MaxTail == 3

SeqsUpTo(A, n) == UNION {[1..m -> A] : m \in 0..n}

U_slash_ab == <<"/","/","a","/","b",".","j","p","g">>

U_https_ab == <<"h","t","t","p","s",":","/","/","a","/","b",".","j","p","g">>

\* the URLs drawn: a scheme-like head followed by a short tail
UrlHeads == {<<>>, S_slashes, S_http_slashes, S_https_slashes, S_https, <<"/">>}

UrlInputs ==
    {h \o t : h \in UrlHeads, t \in SeqsUpTo({"/", ":", "a", "h"}, MaxTail)}
        \cup {U_slash_ab, U_https_ab}

Normalizers == {"normalize", "normalize_url"}

apply_normalizer(f, u) == IF f = "normalize_url" THEN normalize_url(u) ELSE normalize(u)

NormalizeInit ==
    /\ fn \in Normalizers
    /\ opts = DefaultOptions
    /\ container = FALSE
    /\ pc = "start"
    /\ doc = <<>>
    /\ links = <<>>
    /\ chosen \in UrlInputs
    /\ seen = {}
    /\ out = <<>>
    /\ base_to_full = <<>>
    /\ pending = <<>>
    /\ groups = <<>>
    /\ log = <<>>
    /\ requests = <<>>
    /\ files = <<>>
    /\ dl = 1
    /\ answers = <<>>
    /\ targets = <<>>
    /\ idx = 0
    /\ stdout = <<>>
    /\ sleeps = <<>>
    /\ returned = <<>>
    /\ writers = <<>>

\* the normalizer called on the drawn URL
normalize_call ==
    /\ fn \in Normalizers
    /\ pc = "start"
    /\ out' = <<apply_normalizer(fn, chosen)>>
    /\ pc' = "once"
    /\ UNCHANGED <<fn, opts, container, doc, links, chosen, seen, base_to_full,
                   pending, groups, log,
                   requests, files, dl, answers,
                   targets, idx, stdout, sleeps, returned, writers>>

\* the normalizer called on its own result
normalize_again ==
    /\ fn \in Normalizers
    /\ pc = "once"
    /\ out' = Append(out, apply_normalizer(fn, out[1]))
    /\ pc' = "twice"
    /\ UNCHANGED <<fn, opts, container, doc, links, chosen, seen, base_to_full,
                   pending, groups, log,
                   requests, files, dl, answers,
                   targets, idx, stdout, sleeps, returned, writers>>

NormalizeNext == normalize_call \/ normalize_again

NormalizeSpec == NormalizeInit /\ [][NormalizeNext]_vars

\* C11: normalize and normalize_url are idempotent and leave absolute URLs
\* alone: normalizing a normalized URL gives the same string, a URL that
\* starts with http:// or https:// is returned as it is, and //a/b.jpg
\* becomes https://a/b.jpg.
C11_NormalizeIdempotent ==
    fn \in Normalizers =>
        /\ Len(out) >= 1 =>
              /\ (startswith(chosen, S_http_slashes) \/ startswith(chosen, S_https_slashes))
                    => out[1] = chosen
              /\ chosen = U_slash_ab => out[1] = U_https_ab
        /\ Len(out) = 2 => out[2] = out[1]

\* C11 witness: normalize has been applied twice to //a/b.jpg and gave
\* https://a/b.jpg both times.
C11_Witness ==
    /\ fn = "normalize"
    /\ pc = "twice"
    /\ chosen = U_slash_ab
    /\ out = <<U_https_ab, U_https_ab>>

\* whether a URL has a scheme and a host
IsAbsolute(u) ==
    \E head \in {S_http_slashes, S_https_slashes} :
        /\ startswith(u, head)
        /\ Len(u) > Len(head)
        /\ u[Len(head) + 1] # "/"

\* C12: every URL returned by extract_image_srcs and process_html is
\* absolute: a protocol-relative value got the https: prefix and a value
\* relative to the page was resolved against the page's URL, so no entry
\* lacks a scheme and a host.
C12_ReturnedUrlsAbsolute ==
    fn \in {"process_html", "extract_image_srcs_engine", "extract_image_srcs"} =>
        \A i \in 1..Len(out) : IsAbsolute(out[i])

\* whether an attribute value is present and is not a data: URI
Usable(v) == Len(v) > 0 /\ ~startswith(v, S_data)

\* the candidates C13 names for one img: d-src when usable, then src too under
\* include_both when usable and different; src alone when d-src is not usable
PreferredSources(img, both) ==
    IF Usable(img.d_src)
    THEN IF both /\ Usable(img.src) /\ img.src # img.d_src
         THEN <<img.d_src, img.src>>
         ELSE <<img.d_src>>
    ELSE IF Usable(img.src) THEN <<img.src>> ELSE <<>>

PreferredKeysOf ==
    [f \in {"extract_image_srcs_engine", "extract_image_srcs"} |->
        [both \in BOOLEAN |->
            [k \in DOMAIN Imgs |->
                LET cands == PreferredSources(Imgs[k], both)
                IN  [i \in 1..Len(cands) |-> key_of(f, normalize(cands[i]))]]]]

RECURSIVE PreferredKeys(_)
PreferredKeys(d) ==
    IF Len(d) = 0 THEN <<>>
    ELSE PreferredKeys(SubSeq(d, 1, Len(d) - 1))
            \o PreferredKeysOf[fn][opts.include_both][d[Len(d)]]

\* C13: in extract_image_srcs an img whose d-src is present and not a data:
\* URI contributes d-src and not its src, unless include_both is set and src
\* is non-data and differs from d-src, when d-src comes first and src second;
\* an img whose d-src is absent or a data: URI contributes its non-data src
\* alone.  The result is the keys of these candidates in first-seen order.
C13_DSrcPreferred ==
    fn \in {"extract_image_srcs_engine", "extract_image_srcs"} =>
        out = FirstSeen(PreferredKeys(doc))

\* C13 witness: with include_both, extract_image_srcs has returned a.jpg (from
\* d-src) and then b.jpg (from src) for the img with src b.jpg and d-src
\* a.jpg?v=2.
C13_Witness ==
    /\ fn = "extract_image_srcs_engine"
    /\ opts.include_both
    /\ pc = "done"
    /\ doc = <<14>>
    /\ out = <<U_a, U_b>>

\* without include_both, extract_image_srcs has returned a.jpg alone for the
\* same img
C13_DSrcAloneReached ==
    /\ fn = "extract_image_srcs"
    /\ ~opts.include_both
    /\ pc = "done"
    /\ doc = <<14>>
    /\ out = <<U_a>>

\* the sources of one img by attribute class, highest priority first as C14
\* ranks them: the lazy-load attributes, the URL resolved from srcset, src
SourcesByPriority(img, high_res) ==
    LET lazy == {normalize(v) : v \in {w \in {img.data_src, img.data_msrc, img.d_src} : Usable(w)}}
        variants == parse_srcset(img.srcset)
        resolved == IF high_res /\ Len(variants) > 0
                    THEN {FirstOfGreatestWidth(variants)}
                    ELSE {}
        plain == IF Usable(img.src) THEN {normalize(img.src)} ELSE {}
    IN  <<lazy, resolved, plain>>

\* the URLs of the highest class of an img that holds a source of key b
TopSourcesOf(img, high_res, b) ==
    LET classes == SourcesByPriority(img, high_res)
        hits == [c \in 1..3 |-> {u \in classes[c] : strip_to_jpg(u) = b}]
    IN  IF hits[1] # {} THEN hits[1] ELSE IF hits[2] # {} THEN hits[2] ELSE hits[3]

TopSources ==
    [h \in BOOLEAN |-> [k \in DOMAIN Imgs |->
        [b \in {strip_to_jpg(u) : u \in UNION {SourcesByPriority(Imgs[k], h)[c] : c \in 1..3}}
            |-> TopSourcesOf(Imgs[k], h, b)]]]

\* C14: get_product_slider_imgs ranks the lazy-load attributes above the URL
\* resolved from srcset and that above the plain src: the chosen_url of an
\* img entry is, of the sources of the first img that has its key, one of
\* the highest-ranked attribute class present.
C14_LazyLoadAttributeFirst ==
    fn = "get_product_slider_imgs" =>
        \A i \in 1..Len(out) :
            out[i].type = "img" =>
                \E k \in 1..Len(doc) :
                    LET top == TopSources[opts.high_res][doc[k]]
                    IN  /\ out[i].base_jpg \in DOMAIN top
                        /\ \A m \in 1..(k - 1) :
                              out[i].base_jpg \notin DOMAIN TopSources[opts.high_res][doc[m]]
                        /\ out[i].chosen_url \in top[out[i].base_jpg]

\* the keys the img elements read produced
ImgKeys == UNION {DOMAIN TopSources[opts.high_res][doc[k]] : k \in 1..Len(doc)}

\* what C15 says of the anchor entries apart from the form of their href: a
\* key no img produced, a place after every img entry, none without
\* include_links
AnchorsAfterImgs ==
    /\ \A i \in 1..Len(out) :
          out[i].type = "anchor" =>
              /\ \E h \in 1..Len(links) : out[i].chosen_url = normalize(Hrefs[links[h]])
              /\ out[i].base_jpg \notin ImgKeys
              /\ \A j \in (i + 1)..Len(out) : out[j].type = "anchor"
    /\ ~opts.include_links => \A i \in 1..Len(out) : out[i].type = "img"

\* C15 as stated: in get_product_slider_imgs every anchor entry has an href
\* ending in a recognized image extension and a key that no img element of
\* the container produced, all anchor entries come after all img entries,
\* and with include_links false there is no anchor entry.
C15_AnchorHrefEndsInExtension ==
    fn = "get_product_slider_imgs" =>
        /\ AnchorsAfterImgs
        /\ \A i \in 1..Len(out) :
              out[i].type = "anchor" =>
                  \E e \in IMAGE_EXTENSIONS : endswith(lower(out[i].chosen_url), e)

\* C15 as amended: in get_product_slider_imgs every anchor entry has an href
\* that contains .jpg in any letter case, its key being the href cut right
\* after the first .jpg (a query string or any other text may follow it in
\* the href), and a key that no img element of the container produced; all
\* anchor entries come after all img entries, and with include_links false
\* there is no anchor entry.
C15_AnchorKeyEndsInJpg ==
    fn = "get_product_slider_imgs" =>
        /\ AnchorsAfterImgs
        /\ \A i \in 1..Len(out) :
              out[i].type = "anchor" =>
                  /\ find(lower(out[i].chosen_url), S_jpg) # -1
                  /\ out[i].base_jpg = TruncateAfter(out[i].chosen_url, {S_jpg})
                  /\ endswith(lower(out[i].base_jpg), S_jpg)

\* C15 witness: after the img whose srcset resolves to x1200.jpg, the anchor
\* with href a.jpg?v=2 has been added as the second entry.
C15_Witness ==
    /\ fn = "get_product_slider_imgs"
    /\ opts.include_links
    /\ doc = <<4>>
    /\ links = <<1>>
    /\ Len(out) = 2
    /\ out[1].type = "img"
    /\ out[2] = [chosen_url |-> U_a_v2, base_jpg |-> U_a, type |-> "anchor"]

(***************************************************************************)
(* Properties of process_html with download                                *)
(***************************************************************************)
\* process_html has returned for a page without the container
ContainerMissing == fn = "process_html" /\ ~container /\ pc = "done"

\* the run has returned an empty list, with one audit record, of the given
\* stage, and without any request
EmptyResult(stage) ==
    /\ out = <<>>
    /\ requests = <<>>
    /\ files = <<>>
    /\ Len(log) = 1
    /\ log[1].stage = stage

\* C16 as stated: when no element matches the container locator process_html
\* returns an empty list, logs container_missing as its only audit record
\* and issues no image request even when download is enabled.
C16_ContainerMissingLogged ==
    (fn = "process_html" /\ ~container) =>
        /\ pc \in {"start", "done"}
        /\ pc = "done" => EmptyResult("container_missing")

\* C16 as amended: when no element matches the container locator
\* process_html returns an empty list, logs slider_missing (status no_slider)
\* as its only audit record - no slider_found, image_selected,
\* extraction_complete or download record follows - and issues no image
\* request even when download is enabled.
C16_SliderMissingLogged ==
    (fn = "process_html" /\ ~container) =>
        /\ pc \in {"start", "done"}
        /\ pc = "done" => (EmptyResult("slider_missing") /\ log[1].status = "no_slider")

\* C16 witness: process_html, called with download, has returned for a page
\* without the container.
C16_Witness ==
    /\ ContainerMissing
    /\ opts.download
    /\ EmptyResult("slider_missing")

S_image_slash == <<"i","m","a","g","e","/">>

\* the outcome records of the download loop, in log order
OutcomeRecords ==
    SelectSeq(log, LAMBDA r : r.stage \in {"download_success", "download_failure"})

\* whether a response is one the download may keep: a 2xx status, a
\* Content-Type beginning with image/, a body of at least 500 bytes
Valid(r) ==
    /\ r.status \in 200..299
    /\ startswith(r.ctype, S_image_slash)
    /\ r.size >= 500

\* C17: process_html records download_success and writes a file for an image
\* only if the response whose body is written has a 2xx status, a
\* Content-Type beginning with image/ and a body of at least 500 bytes,
\* whether it answered the first request or the fallback request.
C17_OnlyValidResponsesWritten ==
    fn = "process_html" =>
        /\ \A name \in DOMAIN files : Valid(files[name])
        /\ (pc = "download" /\ dl > 1 /\ OutcomeRecords[dl - 1].stage = "download_success")
              => Valid(answers[Len(answers)])

\* the requests issued for the i-th image
RequestsFor(i) == SelectSeq(requests, LAMBDA r : r.i = i)

\* whether an attempt failed: a network error, a non-success status, a
\* non-image content type or a body under 500 bytes
AttemptFailed(a) == IsRaised(a) \/ ~Valid(a)

\* the download loop has just handled an image
ImageHandled == fn = "process_html" /\ pc = "download" /\ dl > 1

\* C18: for each image of process_html's download loop, whenever the first
\* attempt fails (network error, non-success status, non-image content type,
\* body under 500 bytes) and the original full URL differs from the base URL,
\* exactly one further request is issued, to that original URL; no image
\* receives more than two requests, and none a second one when its first
\* response passes validation.
C18_OneRetryAfterFailedAttempt ==
    ImageHandled =>
        LET i == dl - 1
            sent == RequestsFor(i)
            base_url == ensure_protocol(out[i])
            original_full == base_to_full[out[i]]
        IN  /\ Len(sent) \in {1, 2}
            /\ sent[1].url = base_url
            /\ (AttemptFailed(answers[1]) /\ original_full # base_url)
                  => (Len(sent) = 2 /\ sent[2].url = original_full)
            /\ ~AttemptFailed(answers[1]) => Len(sent) = 1
            /\ \A j \in 1..i : Len(RequestsFor(j)) <= 2

\* the first request of the image just handled was answered 404 and the
\* fallback request 200 with image/jpeg and at least 500 bytes
FallbackServed ==
    /\ ImageHandled
    /\ Len(answers) = 2
    /\ ~IsRaised(answers[1]) /\ answers[1].status = 404
    /\ ~IsRaised(answers[2])
    /\ answers[2].status = 200 /\ answers[2].ctype = CT_jpeg /\ answers[2].size >= 500

\* C19: an image whose base-URL request returns 404 and whose fallback
\* (original, query-preserving) URL returns 200 with image/jpeg and at
\* least 500 bytes is recorded as a success with the fallback marked as
\* used: the bytes written are the fallback response's and the success
\* record shows the fallback URL as the one used.
C19_FallbackSuccessRecorded ==
    FallbackServed =>
        LET i == dl - 1
            fallback_url == RequestsFor(i)[2].url
            name == IntToStr(i) \o <<"_">> \o last_segment(out[i])
        IN  /\ OutcomeRecords[i].stage = "download_success"
            /\ name \in DOMAIN files
            /\ files[name].url = fallback_url
            /\ files[name].size = answers[2].size
            /\ OutcomeRecords[i].image_full = fallback_url

\* the same without the last line: what the run does record
C19_FallbackBytesWritten ==
    FallbackServed =>
        LET i == dl - 1
            fallback_url == RequestsFor(i)[2].url
            name == IntToStr(i) \o <<"_">> \o last_segment(out[i])
        IN  /\ OutcomeRecords[i].stage = "download_success"
            /\ name \in DOMAIN files
            /\ files[name].url = fallback_url
            /\ files[name].size = answers[2].size

\* the i-th outcome record is about the i-th entry of the result
OutcomeOf(i) ==
    /\ OutcomeRecords[i].stage \in {"download_success", "download_failure"}
    /\ OutcomeRecords[i].image_base = out[i]
    /\ Len(RequestsFor(i)) >= 1
    /\ RequestsFor(i)[1].url = ensure_protocol(out[i])

\* C20: with download enabled, exactly one outcome record (download_success
\* or download_failure) is appended for every entry of the result, in
\* result order, whichever fetches fail; a failure for one image never
\* prevents the attempt for the next image.
C20_OneOutcomePerEntry ==
    /\ (pc = "download" =>
            /\ Len(OutcomeRecords) = dl - 1
            /\ \A i \in 1..(dl - 1) : OutcomeOf(i))
    /\ (pc = "done" /\ opts.download /\ container =>
            /\ Len(OutcomeRecords) = Len(out)
            /\ \A i \in 1..Len(out) : OutcomeOf(i))

\* a failed image followed by an attempted and successful next image
C20_Witness ==
    /\ pc = "done" /\ opts.download /\ Len(out) >= 2
    /\ OutcomeRecords[1].stage = "download_failure"
    /\ OutcomeRecords[2].stage = "download_success"
    /\ Len(RequestsFor(2)) >= 1

\* the records of the log with one of the given stages
RecordsOf(stages) == SelectSeq(log, LAMBDA r : r.stage \in stages)

\* the position of a stage in the order of process_html's records
StageRank(stage) ==
    CASE stage = "slider_found" -> 1
      [] stage = "image_selected" -> 2
      [] stage = "extraction_complete" -> 3
      [] stage \in {"download_success", "download_failure"} -> 4
      [] stage = "download_directory_scan" -> 5
      [] OTHER -> 0

\* process_html has returned from a page that holds the container
Returned == fn = "process_html" /\ container /\ pc = "done"

\* C27: within one process_html invocation on a page whose container exists
\* the audit records are one slider_found, then the image_selected records
\* in result order, then exactly one extraction_complete, then (only when
\* download is requested) the download_success / download_failure records,
\* then one download_directory_scan as the last record; no image_selected
\* follows extraction_complete and no download record precedes it.
C27_RecordsInStageOrder ==
    fn = "process_html" /\ container =>
        /\ \A i \in 1..Len(log) : StageRank(log[i].stage) >= 1
        /\ \A i, j \in 1..Len(log) :
              i < j => StageRank(log[i].stage) <= StageRank(log[j].stage)
        /\ Len(RecordsOf({"slider_found"})) <= 1
        /\ Len(RecordsOf({"extraction_complete"})) <= 1
        /\ Len(RecordsOf({"download_directory_scan"})) <= 1
        /\ LET selected == RecordsOf({"image_selected"})
           IN  /\ Len(selected) = Len(out)
               /\ \A i \in 1..Len(out) : selected[i].image_base = out[i]
        /\ (~opts.download =>
               RecordsOf({"download_success", "download_failure",
                          "download_directory_scan"}) = <<>>)
        /\ (Returned =>
               /\ Len(log) >= Len(out) + 2
               /\ log[1].stage = "slider_found"
               /\ log[Len(out) + 2].stage = "extraction_complete"
               /\ IF opts.download
                  THEN /\ Len(log) = 2 * Len(out) + 3
                       /\ log[Len(log)].stage = "download_directory_scan"
                  ELSE Len(log) = Len(out) + 2)

\* a download run over two images that ended with the directory scan
C27_Witness ==
    /\ Returned /\ opts.download /\ Len(out) = 2
    /\ log[Len(log)].stage = "download_directory_scan"

\* the count N of a note images=N
images_count(note) == DigitsToInt(Drop(note, Len(S_images_eq)))

\* C28: the images=N count of the extraction_complete record equals the
\* number of image_selected records appended for the page in the same
\* invocation and the length of the list process_html returns.
C28_CountMatchesSelected ==
    fn = "process_html" =>
        \A i \in 1..Len(log) :
            log[i].stage = "extraction_complete" =>
                /\ startswith(log[i].note, S_images_eq)
                /\ isdigit(Drop(log[i].note, Len(S_images_eq)))
                /\ images_count(log[i].note) = Len(RecordsOf({"image_selected"}))
                /\ images_count(log[i].note) = Len(out)

\* three img elements read, two of them selected, and the count logged
C28_Witness ==
    /\ Returned /\ Len(doc) = 3 /\ Len(out) = 2
    /\ \E i \in 1..Len(log) :
          log[i].stage = "extraction_complete" /\ images_count(log[i].note) = 2

(***************************************************************************)
(* The srcset parsers on single entries                                    *)
(***************************************************************************)
\* str.isdigit() is also true of digit characters that int() rejects, such
\* as SUPERSCRIPT TWO; "U+00B2" stands for that character
OtherDigitChars == {"U+00B2"}

str_isdigit(s) ==
    Len(s) > 0 /\ \A k \in 1..Len(s) : IsDigitChar(s[k]) \/ s[k] \in OtherDigitChars

\* whether parse_width raises ValueError: descriptor[:-1].isdigit() holds
\* and int(descriptor[:-1]) rejects the str
parse_width_raises(descriptor) ==
    /\ Len(descriptor) > 0
    /\ endswith(descriptor, <<"w">>)
    /\ str_isdigit(Take(descriptor, Len(descriptor) - 1))
    /\ ~isdigit(Take(descriptor, Len(descriptor) - 1))

\* the srcset loop of process_html on one attribute: its (url, w) pairs, or
\* the exception that leaves the loop
srcset_loop(srcset) ==
    LET parts == NonEmptyParts(split_on(srcset, ","))
        descriptor(part) == IF Len(split_ws(part)) > 1 THEN split_ws(part)[2] ELSE <<>>
    IN  IF \E k \in 1..Len(parts) : parse_width_raises(descriptor(parts[k]))
        THEN <<[raised |-> "ValueError"]>>
        ELSE srcset_candidates(srcset)

\* the srcset attributes drawn: one entry, a URL and a short trailing token
DescriptorChars == {"w", "8", "-", "x", "U+00B2"}

SrcsetEntries ==
    {u \o <<" ">> \o d : u \in {U_a, U_a_w700}, d \in SeqsUpTo(DescriptorChars, MaxTail)}

Parsers == {"parse_srcset", "parse_width"}

ParseInit ==
    /\ fn \in Parsers
    /\ opts = DefaultOptions
    /\ container = FALSE
    /\ pc = "start"
    /\ doc = <<>>
    /\ links = <<>>
    /\ chosen \in SrcsetEntries
    /\ seen = {}
    /\ out = <<>>
    /\ base_to_full = <<>>
    /\ pending = <<>>
    /\ groups = <<>>
    /\ log = <<>>
    /\ requests = <<>>
    /\ files = <<>>
    /\ dl = 1
    /\ answers = <<>>
    /\ targets = <<>>
    /\ idx = 0
    /\ stdout = <<>>
    /\ sleeps = <<>>
    /\ returned = <<>>
    /\ writers = <<>>

\* the parser called on the drawn attribute
parse_call ==
    /\ fn \in Parsers
    /\ pc = "start"
    /\ out' = IF fn = "parse_srcset" THEN parse_srcset(chosen) ELSE srcset_loop(chosen)
    /\ pc' = "parsed"
    /\ UNCHANGED <<fn, opts, container, doc, links, chosen, seen, base_to_full,
                   pending, groups, log, requests, files, dl, answers,
                   targets, idx, stdout, sleeps, returned, writers>>

ParseNext == parse_call

ParseSpec == ParseInit /\ [][ParseNext]_vars

\* the trailing token of an entry and what precedes it
TrailingToken(entry) ==
    LET part == strip(entry)
    IN  Drop(part, rfind(part, <<" ">>) + 1)

UrlToken(entry) ==
    LET part == strip(entry)
    IN  IF rfind(part, <<" ">>) = -1 THEN part ELSE strip(Take(part, rfind(part, <<" ">>)))

\* a token of the form <digits>w
WidthDescriptor(tok) ==
    endswith(tok, <<"w">>) /\ isdigit(Take(tok, Len(tok) - 1))

\* C26: a srcset entry whose trailing token is not of the form <digits>w is
\* given width 0 and never aborts extraction, both in parse_srcset and in
\* parse_width as called from process_html; the entry's URL remains a
\* candidate.
C26_MalformedDescriptorIsWidthZero ==
    fn \in Parsers /\ pc = "parsed" /\ ~WidthDescriptor(TrailingToken(chosen)) =>
        /\ Len(out) = 1
        /\ ~IsRaised(out[1])
        /\ out[1].w = 0
        /\ out[1].url = normalize(UrlToken(chosen))

(***************************************************************************)
(* Ivan/Temp/extraction.py main: the loop over the target pages            *)
(***************************************************************************)
MaxTargets == 2

U_page2 == <<"h","t","t","p","s",":","/","/","h","/","p","/","o","t","h","e","r">>

\* the answers to requests.get of a page: raise_for_status raises on 404
PageAnswers ==
    {[status |-> 200], [status |-> 404], [raised |-> "ConnectionError"]}

\* str(e) of the exception main catches
page_error(r) ==
    IF IsRaised(r) THEN <<r.raised>> ELSE <<"HTTPError", " ">> \o IntToStr(r.status)

\* the img elements of the pages and the answers to their image requests
MainPool == {18}

MainImageAnswers ==
    {[status |-> 200, ctype |-> CT_jpeg, size |-> MinBytes],
     [raised |-> "ConnectionError"]}

\* main called with --url or --excel: targets is built, nothing is fetched
MainInit ==
    /\ fn = "main"
    /\ opts \in {[DefaultOptions EXCEPT !.download = d] : d \in BOOLEAN}
    /\ container = FALSE
    /\ pc = "fetch"
    /\ doc = <<>>
    /\ links = <<>>
    /\ chosen = <<>>
    /\ seen = {}
    /\ out = <<>>
    /\ base_to_full = <<>>
    /\ pending = <<>>
    /\ groups = <<>>
    /\ log = <<>>
    /\ requests = <<>>
    /\ files = <<>>
    /\ dl = 1
    /\ answers = <<>>
    /\ targets \in SeqsUpTo({U_page, U_page2}, MaxTargets)
    /\ idx = 0
    /\ stdout = <<>>
    /\ sleeps = <<>>
    /\ returned = <<>>
    /\ writers = <<>>

\* one iteration of main's loop if a failed fetch ended the loop
main_fetch_abort(r, c) ==
    /\ fn = "main"
    /\ pc = "fetch"
    /\ idx < Len(targets)
    /\ idx' = idx + 1
    /\ requests' = Append(requests, [i |-> 0, url |-> targets[idx + 1], answer |-> r])
    /\ IF IsRaised(r) \/ r.status >= 400
       THEN /\ log' = Append(log, [log_event("fetch_failure", <<>>, <<>>, "error",
                                             page_error(r))
                                   EXCEPT !.page_url = targets[idx + 1]])
            /\ pc' = "exit"
            /\ UNCHANGED <<fn, container>>
       ELSE /\ fn' = "process_html"
            /\ pc' = "start"
            /\ container' = c
            /\ UNCHANGED log
    /\ UNCHANGED <<opts, doc, links, chosen, seen, out, base_to_full, pending, groups,
                   files, dl, answers, targets, stdout, sleeps, returned, writers>>

\* one iteration of main's loop up to the call of process_html: the page is
\* requested; an exception is logged as fetch_failure and the loop goes on
main_fetch(r, c) ==
    /\ fn = "main"
    /\ pc = "fetch"
    /\ idx < Len(targets)
    /\ idx' = idx + 1
    /\ requests' = Append(requests, [i |-> 0, url |-> targets[idx + 1], answer |-> r])
    /\ IF IsRaised(r) \/ r.status >= 400
       THEN /\ log' = Append(log, [log_event("fetch_failure", <<>>, <<>>, "error",
                                             page_error(r))
                                   EXCEPT !.page_url = targets[idx + 1]])
            /\ UNCHANGED <<fn, pc, container>>
       ELSE /\ fn' = "process_html"
            /\ pc' = "start"
            /\ container' = c
            /\ UNCHANGED log
    /\ UNCHANGED <<opts, doc, links, chosen, seen, out, base_to_full, pending, groups,
                   files, dl, answers, targets, stdout, sleeps, returned, writers>>

\* process_html returns to main: its locals are gone
main_return ==
    /\ fn = "process_html"
    /\ pc = "done"
    /\ idx > 0
    /\ fn' = "main"
    /\ pc' = "fetch"
    /\ container' = FALSE
    /\ doc' = <<>>
    /\ chosen' = <<>>
    /\ seen' = {}
    /\ out' = <<>>
    /\ base_to_full' = <<>>
    /\ dl' = 1
    /\ answers' = <<>>
    /\ UNCHANGED <<opts, links, pending, groups, log, requests, files, targets, idx,
                   stdout, sleeps, returned, writers>>

\* the loop is over: main returns
main_exit ==
    /\ fn = "main"
    /\ pc = "fetch"
    /\ idx = Len(targets)
    /\ pc' = "exit"
    /\ UNCHANGED <<fn, opts, container, doc, links, chosen, seen, out, base_to_full,
                   pending, groups, log, requests, files, dl, answers,
                   targets, idx, stdout, sleeps, returned, writers>>

MainNext ==
    \/ \E r \in PageAnswers : \E c \in BOOLEAN : main_fetch(r, c)
    \/ find_container
    \/ \E k \in MainPool : process_html_img(k)
    \/ process_html_complete
    \/ \E r1 \in MainImageAnswers : process_html_download(r1, r1)
    \/ process_html_scan
    \/ main_return
    \/ main_exit

MainSpec == MainInit /\ [][MainNext]_vars

\* the page requests main has issued
PageRequests == SelectSeq(requests, LAMBDA r : r.i = 0)

PageFailed(k) == IsRaised(PageRequests[k].answer) \/ PageRequests[k].answer.status >= 400

\* the positions of the log where the records of a page begin
PageStarts ==
    SelectSeq([i \in 1..Len(log) |-> i],
              LAMBDA i : log[i].stage \in {"fetch_failure", "slider_found",
                                           "slider_missing"})

\* the last position of the records of the k-th page that has records
PageEnd(k) == IF k < Len(PageStarts) THEN PageStarts[k + 1] - 1 ELSE Len(log)

\* the fetched page has no record yet: process_html has not looked for the
\* container
NoRecordYet == fn = "process_html" /\ pc = "start"

\* C21: in main each target page is fetched exactly once; when that fetch
\* fails one fetch_failure record carrying that page's URL is appended and
\* no slider, image or download record is produced for that page, and every
\* later target of the list is still fetched and processed.
C21_FailedPageIsolated ==
    fn \in {"main", "process_html"} /\ (idx > 0 \/ fn = "main") =>
        /\ Len(PageRequests) = idx
        /\ \A k \in 1..idx : PageRequests[k].url = targets[k]
        /\ Len(PageStarts) = IF NoRecordYet THEN idx - 1 ELSE idx
        /\ \A k \in 1..Len(PageStarts) :
              /\ (log[PageStarts[k]].stage = "fetch_failure") <=> PageFailed(k)
              /\ PageFailed(k) => PageEnd(k) = PageStarts[k]
              /\ \A i \in PageStarts[k]..PageEnd(k) : log[i].page_url = targets[k]
        /\ (pc = "exit" => idx = Len(targets))

\* main is over, its first page failed and its second page was processed
C21_Witness ==
    /\ fn = "main" /\ pc = "exit" /\ Len(targets) = 2
    /\ PageFailed(1) /\ ~PageFailed(2)
    /\ log[1].stage = "fetch_failure"
    /\ Len(log) >= 3
    /\ log[2].stage = "slider_found"

(***************************************************************************)
(* download_images of ExtractionEngine/extraction_dynamic.py,              *)
(* ExtractionEngine/Temp/extraction_v2.py and                              *)
(* Brillian_ExtractionEngine/download_jewel_images.py                      *)
(***************************************************************************)
DownloadImages ==
    {"download_images_engine", "download_images_v2", "download_images_brillian"}

\* extraction_dynamic.py: f"{slug}_{i}.jpg", or f"{stem}_{i}.jpg" for a name
\* that ends in .jpg, or f"{original}_{i}"; the name without its index is the
\* same with the index left out
engine_filename_unindexed(slug, i, u) ==
    IF Len(slug) > 0 THEN slug \o S_jpg
    ELSE last_segment(u)

engine_filename(slug, i, u) ==
    IF Len(slug) > 0 THEN slug \o <<"_">> \o IntToStr(i) \o S_jpg
    ELSE LET original == last_segment(u)
         IN  IF endswith(lower(original), S_jpg)
             THEN Take(original, Len(original) - 4) \o <<"_">> \o IntToStr(i)
                      \o S_jpg
             ELSE original \o <<"_">> \o IntToStr(i)

\* the file name and the URL requested for urls[i], by variant
download_target(f, args, i) ==
    LET u == args.urls[i]
    IN  CASE f = "download_images_engine" ->
                [url |-> u, filename |-> engine_filename(args.slug, i, u)]
          [] f = "download_images_v2" ->
                [url |-> ensure_protocol(u),
                 filename |-> IntToStr(i) \o <<"_">> \o last_segment(ensure_protocol(u))]
          [] OTHER ->
                [url |-> u,
                 filename |-> args.slug \o <<"_">> \o IntToStr(i) \o S_jpg]

\* the URLs of a batch, with repetitions, and the identifiers of a product
BatchUrls == {U_p3, U_A_upper, U_p2_v3}

BatchArgs(f) ==
    {[urls |-> us, slug |-> s] :
        us \in SeqsUpTo(BatchUrls, MaxElems),
        s \in IF f = "download_images_engine" THEN {<<>>, <<"s">>}
              ELSE IF f = "download_images_brillian" THEN {<<"7">>}
              ELSE {<<>>}}

\* the answers to requests.get of an image: raise_for_status raises on 404
BatchAnswers ==
    {[status |-> 200, ctype |-> CT_jpeg, size |-> MinBytes],
     [status |-> 404, ctype |-> CT_html, size |-> MinBytes - 1],
     [raised |-> "ConnectionError"]}

DownloadImagesInit ==
    /\ fn \in DownloadImages
    /\ opts \in BatchArgs(fn)
    /\ container = FALSE
    /\ pc = "loop"
    /\ doc = <<>>
    /\ links = <<>>
    /\ chosen = <<>>
    /\ seen = {}
    /\ out = <<>>
    /\ base_to_full = <<>>
    /\ pending = <<>>
    /\ groups = <<>>
    /\ log = <<>>
    /\ requests = <<>>
    /\ files = <<>>
    /\ dl = 1
    /\ answers = <<>>
    /\ targets = <<>>
    /\ idx = 0
    /\ stdout = <<>>
    /\ sleeps = <<>>
    /\ returned = <<>>
    /\ writers = <<>>

\* one iteration of download_images: the file is written, or the exception
\* is printed
download_images_step(r) ==
    /\ fn \in DownloadImages
    /\ pc = "loop"
    /\ idx < Len(opts.urls)
    /\ LET t == download_target(fn, opts, idx + 1)
           resp == requests_get(t.url, r)
           failed == IsRaised(resp) \/ resp.status >= 400
       IN  /\ requests' = Append(requests, [i |-> idx + 1, url |-> t.url,
                                            answer |-> resp])
           /\ files' = IF failed THEN files
                       ELSE DictSet(files, t.filename,
                                    [url |-> t.url, status |-> resp.status,
                                     ctype |-> resp.ctype, size |-> resp.size])
           /\ stdout' = Append(stdout,
                               IF failed
                               THEN (IF fn = "download_images_brillian"
                                     THEN <<"Failed to download ">>
                                     ELSE <<"Failed ">>)
                                        \o t.url \o <<": ">> \o page_error(resp)
                               ELSE <<"Saved ">> \o t.filename)
    /\ idx' = idx + 1
    /\ UNCHANGED <<fn, opts, container, pc, doc, links, chosen, seen, out, base_to_full,
                   pending, groups, log, dl, answers, targets, sleeps, returned,
                   writers>>

\* the loop is over: download_images returns None
download_images_return ==
    /\ fn \in DownloadImages
    /\ pc = "loop"
    /\ idx = Len(opts.urls)
    /\ pc' = "done"
    /\ returned' = Append(returned, "None")
    /\ UNCHANGED <<fn, opts, container, doc, links, chosen, seen, out, base_to_full,
                   pending, groups, log, requests, files, dl, answers,
                   targets, idx, stdout, sleeps, writers>>

\* a batch: process_html with download, or one of the download_images
BatchInit ==
    \/ DownloadInit /\ opts.download
    \/ DownloadImagesInit

BatchNext ==
    \/ DownloadNext
    \/ \E r \in BatchAnswers : download_images_step(r)
    \/ download_images_return

BatchSpec == BatchInit /\ [][BatchNext]_vars

\* the requests of a batch that failed
FailedRequests ==
    SelectSeq(requests, LAMBDA q : IsRaised(q.answer) \/ q.answer.status >= 400)

\* C22: no failure is silently swallowed by the batch downloaders: every
\* failed image download in download_images produces an audit record or an
\* error value returned to the caller, so the caller can tell which images
\* of a batch were not saved.
C22_FailureReportedToCaller ==
    fn \in DownloadImages /\ pc = "done" =>
        \A k \in 1..Len(FailedRequests) :
            \/ \E j \in 1..Len(log) :
                  /\ log[j].stage = "download_failure"
                  /\ FailedRequests[k].url \in {log[j].image_base, log[j].image_full}
            \/ returned[Len(returned)] # "None"

\* the successful downloads of the batch so far
Successes ==
    IF fn = "process_html" THEN Len(RecordsOf({"download_success"}))
    ELSE Len(SelectSeq(stdout, LAMBDA line : line[1] = "Saved "))

\* C30: within one download batch the filenames are pairwise distinct, so no
\* image of the batch overwrites another: process_html names files
\* <index>_<basename>, download_images names them <slug>_<index>.jpg or
\* <stem>_<index>.jpg, and each URL of the batch gets a distinct index.
C30_FilenamesDistinct ==
    /\ fn \in DownloadImages \cup {"process_html"} =>
          Cardinality(DOMAIN files) = Successes
    /\ fn \in DownloadImages =>
          \A i, j \in 1..idx :
              i # j => download_target(fn, opts, i).filename
                           # download_target(fn, opts, j).filename

\* the same URL twice in one batch, both saved, under two names
C30_Witness ==
    /\ fn = "download_images_engine" /\ pc = "done"
    /\ Len(opts.urls) = 2 /\ opts.urls[1] = opts.urls[2]
    /\ Cardinality(DOMAIN files) = 2

(***************************************************************************)
(* TextDataExtraction/extractTextIvan.py fetch_html_from_url               *)
(***************************************************************************)
MaxRetries == 3

\* the answers to requests.get: a page, a status raise_for_status raises on,
\* a RequestException, and an exception that is no RequestException
FetchAnswers ==
    {[status |-> 200, text |-> "page"], [status |-> 404, text |-> "not found"],
     [raised |-> "ConnectionError"], [raised |-> "KeyboardInterrupt"]}

\* what `except requests.RequestException` catches
RequestError(r) ==
    IF IsRaised(r) THEN r.raised = "ConnectionError" ELSE r.status >= 400

FetchInit ==
    /\ fn = "fetch_html_from_url"
    /\ opts \in [url : {U_page, U_page2}, retries : 0..MaxRetries, delay : {1, 2}]
    /\ container = FALSE
    /\ pc = "loop"
    /\ doc = <<>>
    /\ links = <<>>
    /\ chosen = <<>>
    /\ seen = {}
    /\ out = <<>>
    /\ base_to_full = <<>>
    /\ pending = <<>>
    /\ groups = <<>>
    /\ log = <<>>
    /\ requests = <<>>
    /\ files = <<>>
    /\ dl = 1
    /\ answers = <<>>
    /\ targets = <<>>
    /\ idx = 0
    /\ stdout = <<>>
    /\ sleeps = <<>>
    /\ returned = <<>>
    /\ writers = <<>>

\* one attempt that sleeps after every failure
fetch_attempt_sleeps_always(r) ==
    /\ fn = "fetch_html_from_url"
    /\ pc = "loop"
    /\ idx < opts.retries
    /\ requests' = Append(requests, [i |-> idx + 1, url |-> opts.url, answer |-> r])
    /\ IF RequestError(r)
       THEN /\ stdout' = Append(stdout, <<"  Attempt ">> \o IntToStr(idx + 1) \o <<"/">>
                                            \o IntToStr(opts.retries) \o <<" failed: ">>
                                            \o page_error(r))
            /\ sleeps' = Append(sleeps, [after |-> idx + 1, seconds |-> opts.delay])
            /\ idx' = idx + 1
            /\ UNCHANGED <<pc, returned>>
       ELSE IF IsRaised(r)
       THEN /\ pc' = "raised"
            /\ UNCHANGED <<idx, stdout, sleeps, returned>>
       ELSE /\ pc' = "done"
            /\ returned' = Append(returned, r.text)
            /\ UNCHANGED <<idx, stdout, sleeps>>
    /\ UNCHANGED <<fn, opts, container, doc, links, chosen, seen, out, base_to_full,
                   pending, groups, log, files, dl, answers, targets, writers>>

\* one iteration of `for attempt in range(retries)`; idx is attempt + 1 once
\* the attempt is made
fetch_attempt(r) ==
    /\ fn = "fetch_html_from_url"
    /\ pc = "loop"
    /\ idx < opts.retries
    /\ requests' = Append(requests, [i |-> idx + 1, url |-> opts.url, answer |-> r])
    /\ IF RequestError(r)
       THEN /\ stdout' = Append(stdout, <<"  Attempt ">> \o IntToStr(idx + 1) \o <<"/">>
                                            \o IntToStr(opts.retries) \o <<" failed: ">>
                                            \o page_error(r))
            /\ sleeps' = IF idx < opts.retries - 1
                         THEN Append(sleeps, [after |-> idx + 1, seconds |-> opts.delay])
                         ELSE sleeps
            /\ idx' = idx + 1
            /\ UNCHANGED <<pc, returned>>
       ELSE IF IsRaised(r)
       THEN /\ pc' = "raised"
            /\ UNCHANGED <<idx, stdout, sleeps, returned>>
       ELSE /\ pc' = "done"
            /\ returned' = Append(returned, r.text)
            /\ UNCHANGED <<idx, stdout, sleeps>>
    /\ UNCHANGED <<fn, opts, container, doc, links, chosen, seen, out, base_to_full,
                   pending, groups, log, files, dl, answers, targets, writers>>

\* every attempt failed: return None
fetch_return_none ==
    /\ fn = "fetch_html_from_url"
    /\ pc = "loop"
    /\ idx = opts.retries
    /\ pc' = "done"
    /\ returned' = Append(returned, "None")
    /\ UNCHANGED <<fn, opts, container, doc, links, chosen, seen, out, base_to_full,
                   pending, groups, log, requests, files, dl, answers,
                   targets, idx, stdout, sleeps, writers>>

FetchNext ==
    \/ \E r \in FetchAnswers : fetch_attempt(r)
    \/ fetch_return_none

FetchSpec == FetchInit /\ [][FetchNext]_vars

\* the attempts so far that ended in a request error
FailedAttempts == SelectSeq(requests, LAMBDA q : RequestError(q.answer))

\* C29: fetch_html_from_url makes at most `retries` requests for a URL,
\* stops at the first successful one and returns its body, returns None only
\* after every attempt failed with a request error, and waits `delay`
\* seconds only between attempts, never after the last one.
C29_BoundedRetries ==
    fn = "fetch_html_from_url" =>
        /\ Len(requests) <= opts.retries
        /\ \A k \in 1..Len(requests) :
              /\ requests[k].url = opts.url
              /\ k < Len(requests) => RequestError(requests[k].answer)
        /\ Len(returned) <= 1
        /\ (Len(returned) = 1 /\ returned[1] # "None" =>
               /\ ~IsRaised(requests[Len(requests)].answer)
               /\ requests[Len(requests)].answer.status < 400
               /\ returned[1] = requests[Len(requests)].answer.text)
        /\ (Len(returned) = 1 /\ returned[1] = "None" =>
               /\ Len(requests) = opts.retries
               /\ Len(FailedAttempts) = opts.retries)
        /\ (Len(requests) > 0 /\ ~RequestError(requests[Len(requests)].answer) =>
               pc # "loop")
        /\ \A j \in 1..Len(sleeps) :
              /\ sleeps[j].after = j
              /\ sleeps[j].after < opts.retries
              /\ sleeps[j].seconds = opts.delay
              /\ RequestError(requests[j].answer)
        /\ Len(sleeps) = IF Len(FailedAttempts) < opts.retries THEN Len(FailedAttempts)
                         ELSE IF opts.retries = 0 THEN 0 ELSE opts.retries - 1

\* three attempts failed, two waits, None returned
C29_Witness ==
    /\ fn = "fetch_html_from_url" /\ pc = "done"
    /\ opts.retries = 3 /\ Len(requests) = 3 /\ Len(sleeps) = 2
    /\ returned = <<"None">>

\* the second attempt succeeded after one wait and its body was returned
C29_SecondAttemptReached ==
    /\ fn = "fetch_html_from_url" /\ pc = "done"
    /\ Len(requests) = 2 /\ Len(sleeps) = 1 /\ returned = <<"page">>

(***************************************************************************)
(* src/extraction.py: the top-level script, run twice on one document      *)
(***************************************************************************)
\* part.strip().split(" ")[0]
first_token(part) ==
    LET p == strip(part)
    IN  IF find(p, <<" ">>) = -1 THEN p ELSE Take(p, find(p, <<" ">>))

\* what one img adds to image_urls: its src, then every srcset entry
script_urls(img) ==
    (IF Len(img.src) > 0 THEN <<normalize_url(img.src)>> ELSE <<>>)
    \o (IF Len(img.srcset) > 0
        THEN LET parts == split_on(img.srcset, ",")
             IN  [k \in 1..Len(parts) |-> normalize_url(first_token(parts[k]))]
        ELSE <<>>)

RECURSIVE image_urls(_)
image_urls(d) ==
    IF Len(d) = 0 THEN <<>>
    ELSE image_urls(SubSeq(d, 1, Len(d) - 1)) \o script_urls(Imgs[d[Len(d)]])

\* the orders in which a set of str can be iterated: the order depends on
\* the hash seed of the interpreter, which differs from run to run
Orderings(S) ==
    {s \in [1..Cardinality(S) -> S] : \A i, j \in 1..Cardinality(S) : i # j => s[i] # s[j]}

S_image_name == <<"i","m","a","g","e","_">>

\* f"image_{idx+1}.jpg" for the 0-based idx = k - 1
image_name(k) == S_image_name \o IntToStr(k) \o S_jpg

ScriptPool == {1, 2}

ScriptAnswers ==
    {[status |-> 200, ctype |-> CT_jpeg, size |-> MinBytes],
     [raised |-> "ConnectionError"]}

\* the page is fetched and parsed; both runs get the same document
ScriptInit ==
    /\ fn = "extraction.py"
    /\ opts = DefaultOptions
    /\ container \in BOOLEAN
    /\ pc = "start"
    /\ doc \in SeqsUpTo(ScriptPool, MaxElems)
    /\ links = <<>>
    /\ chosen = <<>>
    /\ seen = <<>>
    /\ out = <<>>
    /\ base_to_full = <<>>
    /\ pending = <<>>
    /\ groups = <<>>
    /\ log = <<>>
    /\ requests = <<>>
    /\ files = <<>>
    /\ dl = 1
    /\ answers = <<>>
    /\ targets = <<>>
    /\ idx = 0
    /\ stdout = <<>>
    /\ sleeps = <<>>
    /\ returned = <<>>
    /\ writers = <<>>

\* image_urls of the document the script fetched
ScriptUrls == IF container THEN image_urls(doc) ELSE <<>>

\* the loop over the img elements, set(image_urls) and the loop that prints
\* it; the order of the set is the interpreter's
script_extract(order) ==
    /\ fn = "extraction.py"
    /\ pc = "start"
    /\ Len(returned) < 2
    /\ out' = ScriptUrls
    /\ order \in Orderings({ScriptUrls[k] : k \in 1..Len(ScriptUrls)})
    /\ seen' = order
    /\ stdout' = stdout \o order
    /\ idx' = 0
    /\ pc' = "download"
    /\ UNCHANGED <<fn, opts, container, doc, links, chosen, base_to_full, pending,
                   groups, log, requests, files, dl, answers, targets, sleeps,
                   returned, writers>>

\* one iteration of the download loop over enumerate(set(image_urls))
script_download(r) ==
    /\ fn = "extraction.py"
    /\ pc = "download"
    /\ idx < Len(seen)
    /\ LET img_url == seen[idx + 1]
           resp == requests_get(img_url, r)
       IN  /\ requests' = Append(requests, [i |-> idx + 1, url |-> img_url])
           /\ files' = IF IsRaised(resp) THEN files
                       ELSE DictSet(files, image_name(idx + 1),
                                    [url |-> img_url, status |-> resp.status,
                                     ctype |-> resp.ctype, size |-> resp.size])
           /\ stdout' = Append(stdout,
                               IF IsRaised(resp)
                               THEN <<"Failed to download ">> \o img_url \o <<": ">>
                                        \o <<resp.raised>>
                               ELSE <<"Downloaded: ">> \o img_url)
    /\ idx' = idx + 1
    /\ UNCHANGED <<fn, opts, container, pc, doc, links, chosen, seen, out, base_to_full,
                   pending, groups, log, dl, answers, targets, sleeps, returned,
                   writers>>

\* the run is over: what it gave is kept, and the next run starts afresh
script_end ==
    /\ fn = "extraction.py"
    /\ pc = "download"
    /\ idx = Len(seen)
    /\ returned' = Append(returned,
                          [urls |-> seen,
                           names |-> [k \in 1..Len(seen) |-> image_name(k)]])
    /\ pc' = "start"
    /\ out' = <<>>
    /\ seen' = <<>>
    /\ idx' = 0
    /\ requests' = <<>>
    /\ stdout' = <<>>
    /\ UNCHANGED <<fn, opts, container, doc, links, chosen, base_to_full, pending,
                   groups, log, files, dl, answers, targets, sleeps, writers>>

\* every order of every set of URLs the documents hold
ScriptOrders ==
    LET all == UNION {{script_urls(Imgs[k])[j] : j \in 1..Len(script_urls(Imgs[k]))} :
                          k \in ScriptPool}
    IN  UNION {Orderings(S) : S \in SUBSET all}

ScriptNext ==
    \/ \E order \in ScriptOrders : script_extract(order)
    \/ \E r \in ScriptAnswers : script_download(r)
    \/ script_end

ScriptSpec == ScriptInit /\ [][ScriptNext]_vars

\* C24: two runs of the top-level script src/extraction.py on the same HTML
\* document yield the same image URLs in the same order and assign the same
\* image_<k>.jpg filename to each URL.
C24_RunsAgree ==
    fn = "extraction.py" /\ Len(returned) = 2 =>
        /\ returned[1].urls = returned[2].urls
        /\ \A k \in 1..Len(returned[1].urls) :
              \A j \in 1..Len(returned[2].urls) :
                  returned[1].urls[k] = returned[2].urls[j]
                      => returned[1].names[k] = returned[2].names[j]

(***************************************************************************)
(* Ivan/Temp/extraction.py log_event and write_log_line on OUTPUT_LOG      *)
(***************************************************************************)
MaxWorkers == 2

MaxLogged == 3

OUTPUT_LOG ==
    <<"o","u","t","p","u","t","_","l","o","g","g","i","n","g",".","t","x","t">>

\* the header main writes to a new file; each column name is one token
LogHeader ==
    <<"timestamp", "|", "stage", "|", "page_url", "|", "image_base", "|",
      "image_full", "|", "status", "|", "note">>

\* datetime.datetime.now(datetime.UTC).isoformat(), one token
S_timestamp == "2025-01-01T00:00:00+00:00"

\* "|".join(parts.values()) of a record of log_event: stage and status are
\* one token each, the other fields are str
log_line(rec) ==
    <<S_timestamp, "|", rec.stage, "|">> \o rec.page_url \o <<"|">> \o rec.image_base
        \o <<"|">> \o rec.image_full \o <<"|", rec.status, "|">> \o rec.note

U_pipe == <<"h","t","t","p","s",":","/","/","c","d","n","/","a","|","b",".","j","p","g">>

\* the calls of log_event drawn: an image_selected, one whose URL holds "|",
\* a download_failure whose exception message holds a line break, a
\* slider_found without image, and a directory listing
LogCalls ==
    {log_parts(U_page, "image_selected", U_p3, U_p3_full, "selected", S_width_eq \o S_src),
     log_parts(U_page, "image_selected", U_pipe, U_pipe, "selected", S_width_eq \o S_src),
     log_parts(U_page, "download_failure", U_p3, U_p3, "error", <<"E","r","r","\n","x">>),
     log_parts(U_page, "slider_found", <<>>, <<>>, "ok", <<>>),
     log_parts(U_page, "download_directory_scan", <<>>, <<>>, "files",
               <<"1","_","a",".","j","p","g",",","2","_","b",".","j","p","g">>)}

Workers == 1..MaxWorkers

\* the text of OUTPUT_LOG
log_text == IF OUTPUT_LOG \in DOMAIN files THEN files[OUTPUT_LOG] ELSE <<>>

\* data written at offset pos of a file
write_at(text, pos, data) == Take(text, pos) \o data \o Drop(text, pos + Len(data))

\* log_event called by one or more workers on a new file or after the header
LogInit ==
    /\ fn = "log_event"
    /\ opts = DefaultOptions
    /\ container = FALSE
    /\ pc = "start"
    /\ doc = <<>>
    /\ links = <<>>
    /\ chosen = <<>>
    /\ seen = {}
    /\ out = <<>>
    /\ base_to_full = <<>>
    /\ pending = <<>>
    /\ groups = <<>>
    /\ log = <<>>
    /\ requests = <<>>
    /\ files \in {<<>>, DictSet(<<>>, OUTPUT_LOG, LogHeader \o <<"\n">>)}
    /\ dl = 1
    /\ answers = <<>>
    /\ targets = <<>>
    /\ idx = 0
    /\ stdout = <<>>
    /\ sleeps = <<>>
    /\ returned = <<>>
    /\ writers = [w \in Workers |-> [pc |-> "idle", line |-> <<>>, pos |-> 0]]

\* log_event up to its call of write_log_line: the line is built
log_event_call(w, rec) ==
    /\ fn = "log_event"
    /\ writers[w].pc \in {"idle", "done"}
    /\ Len(log) < MaxLogged
    /\ log' = Append(log, rec)
    /\ writers' = [writers EXCEPT ![w] = [pc |-> "open", line |-> log_line(rec),
                                          pos |-> 0]]
    /\ UNCHANGED <<fn, opts, container, pc, doc, links, chosen, seen, out, base_to_full,
                   pending, groups, requests, files, dl, answers,
                   targets, idx, stdout, sleeps, returned>>

\* write_log_line where the append is one step of the file system: the line
\* lands at the end the file has at that moment
write_log_line_append(w) ==
    /\ fn = "log_event"
    /\ writers[w].pc = "open"
    /\ files' = DictSet(files, OUTPUT_LOG, log_text \o writers[w].line \o <<"\n">>)
    /\ writers' = [writers EXCEPT ![w].pc = "done"]
    /\ UNCHANGED <<fn, opts, container, pc, doc, links, chosen, seen, out, base_to_full,
                   pending, groups, log, requests, dl, answers,
                   targets, idx, stdout, sleeps, returned>>

\* write_log_line where append mode moves to the end of the file and then
\* writes, in two steps; nothing in the code keeps another writer out
write_log_line_seek(w) ==
    /\ fn = "log_event"
    /\ writers[w].pc = "open"
    /\ writers' = [writers EXCEPT ![w].pc = "seek", ![w].pos = Len(log_text)]
    /\ UNCHANGED <<fn, opts, container, pc, doc, links, chosen, seen, out, base_to_full,
                   pending, groups, log, requests, files, dl, answers,
                   targets, idx, stdout, sleeps, returned>>

write_log_line_write(w) ==
    /\ fn = "log_event"
    /\ writers[w].pc = "seek"
    /\ files' = DictSet(files, OUTPUT_LOG,
                        write_at(log_text, writers[w].pos, writers[w].line \o <<"\n">>))
    /\ writers' = [writers EXCEPT ![w].pc = "done"]
    /\ UNCHANGED <<fn, opts, container, pc, doc, links, chosen, seen, out, base_to_full,
                   pending, groups, log, requests, dl, answers,
                   targets, idx, stdout, sleeps, returned>>

LogNext ==
    \/ \E w \in Workers : \E rec \in LogCalls : log_event_call(w, rec)
    \/ \E w \in Workers : write_log_line_append(w)
    \/ \E w \in Workers : write_log_line_seek(w)
    \/ \E w \in Workers : write_log_line_write(w)

LogSpec == LogInit /\ [][LogNext]_vars

\* the complete lines of a text: what precedes each line break
LinesOf(text) ==
    LET parts == split_on(text, "\n")
    IN  SubSeq(parts, 1, Len(parts) - 1)

\* the lines the finished calls of log_event have written
Written(w) == writers[w].pc = "done"

\* C23: every record that log_event appends to the audit log is exactly one
\* line with exactly seven pipe-delimited fields in the fixed order
\* timestamp|stage|page_url|image_base|image_full|status|note, for all
\* values passed in (URLs, directory listings, exception messages), and
\* earlier lines of the log are never changed.
C23_OneLineSevenFields ==
    /\ [](fn = "log_event" =>
            \A w \in Workers :
                Written(w) =>
                    LET rec == CHOOSE r \in LogCalls : log_line(r) = writers[w].line
                        fields == split_on(writers[w].line, "|")
                    IN  /\ Len(LinesOf(writers[w].line \o <<"\n">>)) = 1
                        /\ Len(fields) = 7
                        /\ fields[1] = <<S_timestamp>>
                        /\ fields[2] = <<rec.stage>>
                        /\ fields[3] = rec.page_url
                        /\ fields[4] = rec.image_base
                        /\ fields[5] = rec.image_full
                        /\ fields[6] = <<rec.status>>
                        /\ fields[7] = rec.note)
    /\ [][fn = "log_event" =>
            /\ Len(log_text) <= Len(log_text')
            /\ Take(log_text', Len(log_text)) = log_text]_vars

\* C25: when several workers or runs append events to the same audit log
\* concurrently through log_event / write_log_line, every line of the log
\* consists of the fields of exactly one event in their fixed order: lines
\* of different events may interleave, but the fields of one event are never
\* split across lines or mixed with another event's fields.
C25_LinesAreWholeEvents ==
    fn = "log_event" /\ (\A w \in Workers : writers[w].pc # "idle") =>
        \A k \in 1..Len(LinesOf(log_text)) :
            \/ LinesOf(log_text)[k] = LogHeader
            \/ \E j \in 1..Len(log) : LinesOf(log_text)[k] = log_line(log[j])

====
